---- MODULE Spec2Model ----
(***************************************************************************)
(* Paper copy-trading bot: the ledger store (LedgerService), the tick      *)
(* arithmetic (utils/ticks.ts) and the replication / close engine          *)
(* (TradingEngine).                                                        *)
(*                                                                         *)
(* Numbers.  The source computes with IEEE doubles.  The model keeps every *)
(* amount exact on a fixed grid:                                           *)
(*   prices  in units of 1/PriceScale   (half ticks),                      *)
(*   shares  in units of 1/ShareScale   (0.05 share),                      *)
(*   dollars in units of 1/(PriceScale*ShareScale).                        *)
(* An averaged entry price is the exact rational entryNum/entryDen, and     *)
(* investedUsd is the exact rational investedNum/investedDen.              *)
(***************************************************************************)
EXTENDS Integers, Sequences, FiniteSets, Bags, TLC

\* ------------------------------------------------------------------------
\* Scales of the fixed-point representation
\* ------------------------------------------------------------------------
TICK_SCALE == 1000
\* the "fully closed" threshold of updatePosition is 0.1 = 1/DUST_DEN share
DUST_DEN == 10
PriceScale == TICK_SCALE + TICK_SCALE
ShareScale == DUST_DEN + DUST_DEN

Usd(d) == d * PriceScale * ShareScale
Shares(n) == n * ShareScale

Abs(x) == IF x < 0 THEN -x ELSE x
Max(a, b) == IF a > b THEN a ELSE b
Min(a, b) == IF a < b THEN a ELSE b

RECURSIVE Gcd(_, _)
Gcd(a, b) == IF b = 0 THEN a ELSE Gcd(b, a % b)

\* ------------------------------------------------------------------------
\* utils/ticks.ts
\* ------------------------------------------------------------------------
MIN_TICK == 1
MAX_TICK == 999

clampTick(tick) ==
    IF tick < MIN_TICK THEN MIN_TICK
    ELSE IF tick > MAX_TICK THEN MAX_TICK
    ELSE tick

\* price units per tick: price * TICK_SCALE = price-in-units / UnitsPerTick
UnitsPerTick == PriceScale \div TICK_SCALE

\* Math.floor(price * TICK_SCALE), then clamp; price in 1/PriceScale units
toTick(price) == clampTick(price \div UnitsPerTick)

\* toTick of the rational price n/d (an averaged entry price)
toTickQ(n, d) == clampTick(n \div (UnitsPerTick * d))

\* clampTick(tick) / TICK_SCALE, as a price in 1/PriceScale units
fromTick(tick) == clampTick(tick) * UnitsPerTick

\* ------------------------------------------------------------------------
\* types: enumerations
\* ------------------------------------------------------------------------
PositionStates ==
    {"OPEN", "CLOSING", "PENDING_RESOLUTION", "CLOSED", "SETTLED", "INVALIDATED"}

CloseTriggers ==
    {"MARKET_RESOLUTION", "SYSTEM_GUARD", "USER_ACTION", "COPY_TRADER_EVENT",
     "SYSTEM_POLICY", "TIMEOUT"}

NoValue == "undefined"     \* JavaScript undefined for an optional string field
NoHash  == <<>>            \* a falsy txHash
NoKey   == <<>>            \* an undefined positionId

\* ------------------------------------------------------------------------
\* The venue: one binary market M with outcomes ["No", "Yes"]
\* ------------------------------------------------------------------------
Markets == {"M"}
Sides == {"YES", "NO"}
TokenOf == [YES |-> "t1", NO |-> "t0"]
LabelOf == [YES |-> "Yes", NO |-> "No"]
Tokens == {"t0", "t1"}
Labels == {"No", "Yes"}

\* ------------------------------------------------------------------------
\* Position keys (LedgerService.updatePosition, key construction)
\*   `${marketId}-${tokenId}`, `${marketId}-${side}-${outcomeLabel}`,
\*   `${marketId}-${side}` (legacy)
\* ------------------------------------------------------------------------
TokenKey(m, tok) == <<"tok", m, tok>>
LabelKey(m, side, label) == <<"lbl", m, side, label>>
LegacyKey(m, side) == <<"leg", m, side>>

Keys ==
    {TokenKey(m, t) : m \in Markets, t \in Tokens}
    \cup {LabelKey(m, sd, LabelOf[sd]) : m \in Markets, sd \in Sides}
    \cup {LegacyKey(m, sd) : m \in Markets, sd \in Sides}

canonicalKeyOf(m, side, label, tok) ==
    IF tok # NoValue THEN TokenKey(m, tok) ELSE LabelKey(m, side, label)

\* An absent entry of the positions map
NoPos == [oid |-> 0]

\* ------------------------------------------------------------------------
\* Action reasons: a plain string, or the form "TRIGGER|CAUSE"
\* ------------------------------------------------------------------------
Plain(text) == [piped |-> FALSE, text |-> text, trigger |-> NoValue, cause |-> NoValue]
Piped(trigger, cause) == [piped |-> TRUE, text |-> NoValue, trigger |-> trigger, cause |-> cause]

\* actionReason.includes('RESOLUTION') || actionReason.includes('MARKET_RESOLUTION')
\* (of the enumeration members only MARKET_RESOLUTION contains RESOLUTION)
isSettlementReasonOfPipedOnly(r) ==
    r.piped /\ (r.trigger = "MARKET_RESOLUTION" \/ r.cause = "MARKET_RESOLUTION")

isSettlementReason(r) ==
    IF r.piped THEN r.trigger = "MARKET_RESOLUTION" \/ r.cause = "MARKET_RESOLUTION"
    ELSE r.text \in {"RESOLUTION", "MARKET_RESOLUTION"}

\* trigger / cause stored in the closed record
parsedTrigger(r) ==
    IF r.piped THEN r.trigger
    ELSE IF r.text = "RESOLUTION" THEN "MARKET_RESOLUTION" ELSE "SYSTEM_POLICY"

parsedCause(r) ==
    IF r.piped THEN r.cause
    ELSE IF r.text = "RESOLUTION" THEN "WINNER_YES" ELSE "MANUAL_CLOSE"

\* ------------------------------------------------------------------------
\* LedgerService.updatePosition
\*
\* s      the ledger state (this.state): balance, positions, closedPositions,
\*        tradeEvents, processedTxHashes
\* fresh  identity given to a position object created by this call
\* The result carries the new ledger state, the returned boolean, whether
\* an object was created, and the objects that left the positions map
\* (they stay reachable through references held by suspended callers).
\* ------------------------------------------------------------------------
markAsProcessedNever(s, txHash) == s

\* if (txHash) { processedTxHashes.push(txHash); save() }
markAsProcessed(s, txHash) ==
    IF txHash # NoHash
    THEN [s EXCEPT !.processedTxHashes = @ \cup {txHash}]
    ELSE s

\* the legacy entry moved to the canonical key (a new object: spread copy)
migrated(s, canonicalKey, legacyKey, tokenId, fresh) ==
    LET legacy == s.positions[legacyKey]
    IN [s EXCEPT !.positions =
            [@ EXCEPT ![canonicalKey] =
                          [legacy EXCEPT !.oid = fresh,
                                         !.positionId = canonicalKey,
                                         !.tokenId = IF tokenId # NoValue THEN tokenId
                                                     ELSE legacy.tokenId],
                      ![legacyKey] = NoPos]]

\* size < 0.1
isDustWhenEmpty(size) == size = 0

isDust(size) == size * DUST_DEN < ShareScale

\* a rational n/d in lowest terms, as the pair <<n, d>>
reduced(n, d) == <<n \div Gcd(n, d), d \div Gcd(n, d)>>

\* the rational a/b - c/d in lowest terms, over the least common denominator
minus(a, b, c, d) ==
    LET m == (b \div Gcd(b, d)) * d
    IN reduced(a * (m \div b) - c * (m \div d), m)

buyIntoAtLastPrice(existing, sizeShares, price, outcomeLabel, tokenId, posKey) ==
    [existing EXCEPT
            !.entryNum = price,
            !.entryDen = 1,
            !.entryTick = toTick(price),
            !.size = @ + sizeShares,
            !.investedNum = sizeShares * price,
            !.investedDen = 1,
            !.outcomeLabel = outcomeLabel,
            !.tokenId = IF tokenId # NoValue THEN tokenId ELSE @,
            !.positionId = IF @ # NoKey THEN @ ELSE posKey,
            !.state = "OPEN"]

\* oldCost = existing.size * existing.entryPrice; newCost = sizeShares * price;
\* entryPrice = (oldCost + newCost) / (oldShares + sizeShares);
\* investedUsd = oldCost + newCost = num / existing.entryDen
buyInto(existing, sizeShares, price, outcomeLabel, tokenId, posKey) ==
    LET num == existing.size * existing.entryNum
                 + sizeShares * price * existing.entryDen
        den == existing.entryDen * (existing.size + sizeShares)
        g   == Gcd(num, den)
    IN [existing EXCEPT
            !.entryNum = num \div g,
            !.entryDen = den \div g,
            !.entryTick = toTickQ(num, den),
            !.size = @ + sizeShares,
            !.investedNum = reduced(num, existing.entryDen)[1],
            !.investedDen = reduced(num, existing.entryDen)[2],
            !.outcomeLabel = outcomeLabel,
            !.tokenId = IF tokenId # NoValue THEN tokenId ELSE @,
            !.positionId = IF @ # NoKey THEN @ ELSE posKey,
            !.state = "OPEN"]

newPosition(fresh, marketId, side, outcomeLabel, tokenId, posKey, sizeShares, price, tickPrice, marketType) ==
    [oid |-> fresh, pid |-> fresh, marketId |-> marketId, side |-> side,
     outcomeLabel |-> outcomeLabel, tokenId |-> tokenId, positionId |-> posKey,
     size |-> sizeShares, entryNum |-> price, entryDen |-> 1,
     investedNum |-> Abs(sizeShares * price), investedDen |-> 1,
     realizedNum |-> 0, realizedDen |-> 1,
     entryTick |-> tickPrice, state |-> "OPEN", marketType |-> marketType,
     closeTrigger |-> NoValue, closeCause |-> NoValue, closePriority |-> 0,
     currentPrice |-> 0, lastEntryTime |-> 0]

tradeEvent(txHash, type, marketId, side, tokenId, quantity, price) ==
    [eventId |-> txHash, type |-> type, marketId |-> marketId, side |-> side,
     tokenId |-> tokenId, quantity |-> quantity, price |-> price]

closedRecord(existing, marketId, side, sellShares, price, tickPrice, actionReason) ==
    [pid |-> existing.pid, marketId |-> marketId, side |-> side,
     tokenId |-> existing.tokenId, size |-> sellShares,
     entryTick |-> existing.entryTick, exitPrice |-> price,
     exitTick |-> tickPrice, returnUsd |-> sellShares * price,
     realizedNum |-> existing.realizedNum, realizedDen |-> existing.realizedDen,
     state |-> "CLOSED",
     closeTrigger |-> parsedTrigger(actionReason),
     closeCause |-> parsedCause(actionReason)]

sellFrom(s, posKey, existing, marketId, side, sizeShares, price, tickPrice, txHash, actionReason, tokenId) ==
    LET sellShares == Abs(sizeShares)
        \* investedUsd -= entryPrice * sellShares, over a common denominator
        left == IF existing.entryDen % existing.investedDen = 0
                THEN <<existing.investedNum * (existing.entryDen \div existing.investedDen)
                         - existing.entryNum * sellShares,
                       existing.entryDen>>
                ELSE <<existing.investedNum * existing.entryDen
                         - existing.entryNum * sellShares * existing.investedDen,
                       existing.investedDen * existing.entryDen>>
        \* realizedPnL += price * sellShares - entryPrice * sellShares
        pnl == IF existing.entryDen % existing.realizedDen = 0
               THEN <<existing.realizedNum * (existing.entryDen \div existing.realizedDen)
                        + (price * existing.entryDen - existing.entryNum) * sellShares,
                      existing.entryDen>>
               ELSE <<existing.realizedNum * existing.entryDen
                        + (price * existing.entryDen - existing.entryNum)
                             * sellShares * existing.realizedDen,
                      existing.realizedDen * existing.entryDen>>
        after == [existing EXCEPT !.size = @ - sellShares,
                                  !.investedNum = left[1],
                                  !.investedDen = left[2],
                                  !.realizedNum = pnl[1],
                                  !.realizedDen = pnl[2]]
        ev == tradeEvent(txHash, "SELL", marketId, side,
                         IF tokenId # NoValue THEN tokenId ELSE existing.tokenId,
                         sellShares, price)
        s1 == IF isSettlementReason(actionReason) THEN s
              ELSE [s EXCEPT !.tradeEvents = <<ev>> \o @]
    IN IF isDust(after.size)
       THEN [s |-> [s1 EXCEPT
                       !.closedPositions =
                           <<closedRecord(after, marketId, side, sellShares,
                                          price, tickPrice, actionReason)>> \o @,
                       !.positions = [@ EXCEPT ![posKey] = NoPos]],
             dead |-> {after}]
       ELSE [s |-> [s1 EXCEPT !.positions = [@ EXCEPT ![posKey] = after]],
             dead |-> {}]

insufficientFundsNever(balance, costUsd) == FALSE

\* this.state.balance < costUsd
insufficientFunds(balance, costUsd) == balance < costUsd

updatePosition(s, fresh, marketId, side, outcomeLabel, sizeShares, price, txHash, actionReason, tokenId, marketType) ==
    IF txHash # NoHash /\ txHash \in s.processedTxHashes
    THEN [s |-> s, ok |-> FALSE, alloc |-> FALSE, dead |-> {}]
    ELSE
    LET tickPrice == toTick(price)
        costUsd == Abs(sizeShares * price)
        isBuy == sizeShares > 0
        canonicalKey == canonicalKeyOf(marketId, side, outcomeLabel, tokenId)
        legacyKey == LegacyKey(marketId, side)
        migrate == s.positions[canonicalKey] = NoPos
                   /\ s.positions[legacyKey] # NoPos
        s0 == IF migrate
              THEN migrated(s, canonicalKey, legacyKey, tokenId, fresh)
              ELSE s
        dead0 == IF migrate THEN {s.positions[legacyKey]} ELSE {}
        posKey == canonicalKey
        existing == s0.positions[posKey]
    IN
    IF ~isBuy /\ existing = NoPos /\ actionReason # Plain("RESOLUTION")
    THEN [s |-> markAsProcessed(s0, txHash), ok |-> FALSE,
          alloc |-> migrate, dead |-> dead0]
    ELSE IF isBuy /\ insufficientFunds(s0.balance, costUsd)
    THEN [s |-> markAsProcessed(s0, txHash), ok |-> FALSE,
          alloc |-> migrate, dead |-> dead0]
    ELSE IF isBuy
    THEN LET debited == [s0 EXCEPT !.balance = @ - costUsd]
             pos == IF existing # NoPos
                    THEN buyInto(existing, sizeShares, price, outcomeLabel,
                                 tokenId, posKey)
                    ELSE newPosition(fresh, marketId, side, outcomeLabel, tokenId,
                                     posKey, sizeShares, price, tickPrice, marketType)
             ev == tradeEvent(txHash, "BUY", marketId, side,
                              IF tokenId # NoValue THEN tokenId
                              ELSE IF existing # NoPos THEN existing.tokenId
                              ELSE NoValue,
                              Abs(sizeShares), price)
             s1 == [debited EXCEPT !.positions = [@ EXCEPT ![posKey] = pos],
                                   !.tradeEvents = <<ev>> \o @]
         IN [s |-> markAsProcessed(s1, txHash), ok |-> TRUE,
             alloc |-> (migrate \/ existing = NoPos), dead |-> dead0]
    ELSE \* SELLING / CLOSING: the credit precedes the checks
         LET credited == [s0 EXCEPT !.balance = @ + costUsd]
         IN IF existing = NoPos
            THEN [s |-> credited, ok |-> FALSE, alloc |-> migrate, dead |-> dead0]
            ELSE IF existing.state # "OPEN" /\ existing.state # "CLOSING"
            THEN [s |-> credited, ok |-> FALSE, alloc |-> migrate, dead |-> dead0]
            ELSE LET r == sellFrom(credited, posKey, existing, marketId, side,
                                   sizeShares, price, tickPrice, txHash,
                                   actionReason, tokenId)
                 IN [s |-> markAsProcessed(r.s, txHash), ok |-> TRUE,
                     alloc |-> migrate, dead |-> dead0 \cup r.dead]

\* LedgerService.updatePositionState
updatePositionState(s, posKey, newState) ==
    IF posKey \in DOMAIN s.positions /\ s.positions[posKey] # NoPos
    THEN [s EXCEPT !.positions = [@ EXCEPT ![posKey] = [@ EXCEPT !.state = newState]]]
    ELSE s

\* ------------------------------------------------------------------------
\* State
\* ------------------------------------------------------------------------
VARIABLES
    balance,            \* LedgerSchema.balance
    positions,          \* LedgerSchema.positions: key -> position object
    closedPositions,    \* LedgerSchema.closedPositions (newest first)
    tradeEvents,        \* LedgerSchema.tradeEvents (newest first)
    processedTxHashes,  \* LedgerSchema.processedTxHashes
    nextOid,            \* identity of the next position object created
    detached,           \* objects no longer in the map but still referenced
    pendingCloses,      \* tryClosePosition calls suspended on getLivePrice
    activity,           \* venue: the source account's trades, oldest first
    lifecycle,          \* venue: lifecycle classification of the market
    loop,               \* the polling loop of startPolling
    last,               \* the last ledger call: arguments and result
    hist,               \* history: what the accepted calls add up to
    disk,               \* data/ledger.json and the process that writes it
    clock               \* Date.now(), in milliseconds

ledgerVars == <<balance, positions, closedPositions, tradeEvents, processedTxHashes>>
vars == <<balance, positions, closedPositions, tradeEvents, processedTxHashes,
          nextOid, detached, pendingCloses, activity, lifecycle, loop, last, hist,
          disk, clock>>

\* this.state of LedgerService as one value
LedgerState ==
    [balance |-> balance, positions |-> positions,
     closedPositions |-> closedPositions, tradeEvents |-> tradeEvents,
     processedTxHashes |-> processedTxHashes]

SetLedger(s) ==
    /\ balance' = s.balance
    /\ positions' = s.positions
    /\ closedPositions' = s.closedPositions
    /\ tradeEvents' = s.tradeEvents
    /\ processedTxHashes' = s.processedTxHashes

\* ------------------------------------------------------------------------
\* Bounds
\* ------------------------------------------------------------------------
MaxLedgerCalls == 3     \* direct ledger calls in one behaviour of SpecLedger
MaxObjects == 3         \* position objects created in one behaviour

\* ------------------------------------------------------------------------
\* Initial ledgers: what loadLedger can return
\* ------------------------------------------------------------------------
DEFAULT_BALANCE == 1000

NoPositions == [k \in Keys |-> NoPos]

\* a position written by the earlier revision of the ledger: keyed by
\* (marketId, side), without tokenId, positionId, entryTick or marketType
legacyPosition(oid, m, side, sizeShares, price, state, trigger, cause, priority) ==
    [oid |-> oid, pid |-> oid, marketId |-> m, side |-> side,
     outcomeLabel |-> LabelOf[side], tokenId |-> NoValue, positionId |-> NoKey,
     size |-> sizeShares, entryNum |-> price, entryDen |-> 1,
     investedNum |-> Abs(sizeShares * price), investedDen |-> 1,
     realizedNum |-> 0, realizedDen |-> 1,
     entryTick |-> 0, state |-> state, marketType |-> NoValue,
     closeTrigger |-> trigger, closeCause |-> cause, closePriority |-> priority,
     currentPrice |-> 0, lastEntryTime |-> 0]

emptyLedger(bal) ==
    [balance |-> bal, positions |-> NoPositions, closedPositions |-> <<>>,
     tradeEvents |-> <<>>, processedTxHashes |-> {}]

\* no ledger file: the default ledger
FreshLedger == emptyLedger(Usd(DEFAULT_BALANCE))

\* a ledger file with little cash left
LowLedger == emptyLedger(Usd(5))

\* a ledger file of the earlier revision holding an open position
LegacyLedger ==
    [emptyLedger(Usd(990)) EXCEPT
        !.positions = [@ EXCEPT ![LegacyKey("M", "YES")] =
            legacyPosition(1, "M", "YES", Shares(10), fromTick(400), "OPEN",
                           NoValue, NoValue, 0)]]

\* a ledger file of the earlier revision whose close of a position failed:
\* that revision leaves the position CLOSING with its priority set
InterruptedLedger ==
    [emptyLedger(Usd(990)) EXCEPT
        !.positions = [@ EXCEPT ![LegacyKey("M", "YES")] =
            legacyPosition(1, "M", "YES", Shares(10), fromTick(400), "CLOSING",
                           "MARKET_RESOLUTION", "WINNER_NO", 1)]]

\* a ledger file in which a copy-sell close was interrupted: the position
\* is CLOSING with the priority of COPY_TRADER_EVENT
InterruptedCopyLedger ==
    [emptyLedger(Usd(990)) EXCEPT
        !.positions = [@ EXCEPT ![LegacyKey("M", "YES")] =
            legacyPosition(1, "M", "YES", Shares(10), fromTick(400), "CLOSING",
                           "COPY_TRADER_EVENT", "TARGET_SELLOFF", 4)]]

\* a ledger file of the current revision holding a position opened by a
\* replicated BUY of an earlier run
HoldingLedger ==
    updatePosition(emptyLedger(Usd(DEFAULT_BALANCE)), 1, "M", "YES", "Yes",
                   Shares(10), fromTick(400), <<"tx", 0>>, Plain("COPY_TRADE"),
                   "t1", "SINGLE").s

InitialLedgers ==
    {FreshLedger, LowLedger, LegacyLedger, InterruptedLedger,
     InterruptedCopyLedger, HoldingLedger}

liveOids(s) == {s.positions[k].oid : k \in {kk \in Keys : s.positions[kk] # NoPos}}

NoCall == [op |-> "none"]

\* Date.now() when the process starts: milliseconds since the epoch
DateNow == 1000000

\* data/ledger.json: a complete JSON text is kept as the ledger it encodes;
\* NoFile before the first save; Partial is a file cut short, which
\* JSON.parse rejects (the empty file that the truncating open leaves, or a
\* prefix of the text)
NoFile == [text |-> "absent"]
Partial == [text |-> "partial"]
Complete(s) == [text |-> "complete", ledger |-> s]

\* the process after the constructor has loaded the file that holds `s`
diskOf(s) == [proc |-> "running", file |-> Complete(s), saved |-> {s}]

\* the events of one type in the audit record
countType(events, type) == Cardinality({i \in DOMAIN events : events[i].type = type})

\* the polling loop before startPolling
\* isPolling is the flag of the engine; stopped tells that stopPolling has
\* been called since this loop began; others counts the loops of further
\* startPolling calls that are still inside their while loop
LoopOff == [pc |-> "off", batch |-> <<>>, tickCount |-> 0, sweep |-> {}, isPolling |-> FALSE, stopped |-> FALSE, others |-> 0, blacklistedMarketIds |-> {}]

Init ==
    /\ \E s \in InitialLedgers :
          /\ balance = s.balance
          /\ positions = s.positions
          /\ closedPositions = s.closedPositions
          /\ tradeEvents = s.tradeEvents
          /\ processedTxHashes = s.processedTxHashes
          /\ nextOid = IF liveOids(s) = {} THEN 1 ELSE 2
          /\ hist = [start |-> s.balance, buys |-> 0, sells |-> 0, calls |-> 0,
                     spent |-> 0, applied |-> <<>>, raced |-> {}, gated |-> {},
                     requests |-> 0, lastBuy |-> 0, skipped |-> {},
                     failed |-> {}, call |-> NoCall,
                     accepted |-> [buy |-> countType(s.tradeEvents, "BUY"),
                                   sell |-> countType(s.tradeEvents, "SELL")]]
    /\ detached = {}
    /\ pendingCloses = EmptyBag
    /\ activity = <<>>
    /\ lifecycle = "ACTIVE"
    /\ loop = LoopOff
    /\ last = NoCall
    /\ disk = diskOf(LedgerState)
    /\ clock = DateNow

\* ------------------------------------------------------------------------
\* History of the accepted ledger calls (for the conservation properties)
\*   notional of a call = |shares| * tick / 1000, tick = toTick(price)
\* ------------------------------------------------------------------------
notional(sizeShares, price) == Abs(sizeShares) * fromTick(toTick(price))

recorded(h, sizeShares, price, ok) ==
    [h EXCEPT !.spent = IF ok /\ sizeShares > 0 THEN @ + Abs(sizeShares * price) ELSE @,
              !.buys  = IF ok /\ sizeShares > 0 THEN @ + notional(sizeShares, price) ELSE @,
              !.sells = IF ok /\ sizeShares <= 0 THEN @ + notional(sizeShares, price) ELSE @,
              !.lastBuy = IF ok /\ sizeShares > 0 THEN clock ELSE @]

\* the calls that updatePosition has accepted: buys, and sells that are not
\* closes by MARKET_RESOLUTION
accept(a, sizeShares, actionReason, ok) ==
    IF ~ok THEN a
    ELSE IF sizeShares > 0 THEN [a EXCEPT !.buy = @ + 1]
    ELSE IF parsedTrigger(actionReason) # "MARKET_RESOLUTION" THEN [a EXCEPT !.sell = @ + 1]
    ELSE a

callRecord(txHash, ok) == [op |-> "updatePosition", txHash |-> txHash, ok |-> ok]

\* ------------------------------------------------------------------------
\* SpecLedger: the ledger store driven directly through its operations
\* ------------------------------------------------------------------------
LedgerCall(sizeShares, price, actionReason, tokenId) ==
    [sizeShares |-> sizeShares, price |-> price, actionReason |-> actionReason,
     tokenId |-> tokenId]

\* buys: two scale-in sizes, a dust buy, a buy without tokenId;
\* sells: a full close, a partial sell at an off-grid price, an oversized
\* resolution close at price 1.0, a sell with the legacy reason RESOLUTION
LedgerCalls ==
    {LedgerCall(Shares(10), fromTick(440), Plain("COPY_TRADE"), "t1"),
     LedgerCall(Shares(20), fromTick(500), Plain("COPY_TRADE"), "t1"),
     LedgerCall(1, fromTick(440), Plain("COPY_TRADE"), "t1"),
     LedgerCall(Shares(10), fromTick(440), Plain("COPY_TRADE"), NoValue),
     LedgerCall(-Shares(10), fromTick(550), Piped("USER_ACTION", "MANUAL_CLOSE"), "t1"),
     LedgerCall(-Shares(4), fromTick(440) + 1, Piped("USER_ACTION", "MANUAL_CLOSE"), "t1"),
     LedgerCall(-Shares(30), PriceScale, Piped("MARKET_RESOLUTION", "WINNER_YES"), "t1"),
     LedgerCall(-Shares(10), fromTick(550), Plain("RESOLUTION"), "t1")}

LedgerHashes == {NoHash, <<"h1">>, <<"h2">>}

LedgerUpdatePosition ==
    /\ hist.calls < MaxLedgerCalls
    /\ nextOid <= MaxObjects
    /\ \E c \in LedgerCalls, txHash \in LedgerHashes :
          LET r == updatePosition(LedgerState, nextOid, "M", "YES", LabelOf["YES"],
                                  c.sizeShares, c.price, txHash, c.actionReason,
                                  c.tokenId, "SINGLE")
          IN /\ SetLedger(r.s)
             /\ nextOid' = IF r.alloc THEN nextOid + 1 ELSE nextOid
             /\ last' = callRecord(txHash, r.ok)
             /\ hist' = [recorded(hist, c.sizeShares, c.price, r.ok)
                            EXCEPT !.calls = @ + 1,
                                   !.call = c,
                                   !.accepted = accept(@, c.sizeShares, c.actionReason, r.ok)]
    /\ UNCHANGED <<clock, disk, detached, pendingCloses, activity, lifecycle, loop>>

LedgerUpdatePositionState ==
    /\ hist.calls < MaxLedgerCalls
    /\ \E posKey \in Keys, newState \in {"OPEN", "PENDING_RESOLUTION"} :
          /\ positions[posKey] # NoPos
          /\ positions[posKey].state # newState
          /\ SetLedger(updatePositionState(LedgerState, posKey, newState))
    /\ last' = [op |-> "updatePositionState"]
    /\ hist' = [hist EXCEPT !.calls = @ + 1]
    /\ UNCHANGED <<clock, disk, nextOid, detached, pendingCloses, activity, lifecycle, loop>>

NextLedger == LedgerUpdatePosition \/ LedgerUpdatePositionState

SpecLedger == Init /\ [][NextLedger]_vars

\* ------------------------------------------------------------------------
\* SpecDisk: the ledger store, its file and crashes of the process
\* ------------------------------------------------------------------------
\* LedgerService.loadLedger: a missing or unparsable file gives the default
loadLedger(file) ==
    IF file.text = "complete" THEN file.ledger ELSE emptyLedger(Usd(DEFAULT_BALANCE))

\* LedgerService.save is fs.writeFileSync on the ledger path itself: the
\* file is opened with truncation, then the text is written
saveBegins(d) == [d EXCEPT !.proc = "saving", !.file = Partial]

saveEnds(d, s) == [d EXCEPT !.proc = "running", !.file = Complete(s), !.saved = @ \cup {s}]

\* r is what updatePosition returned for txHash: markAsProcessed, the step
\* that saves, has run exactly when the hash has been recorded
Committed(txHash, r) ==
    /\ SetLedger(r.s)
    /\ nextOid' = IF r.alloc THEN nextOid + 1 ELSE nextOid
    /\ last' = callRecord(txHash, r.ok)
    /\ disk' = IF txHash \in r.s.processedTxHashes /\ txHash \notin processedTxHashes
               THEN saveBegins(disk) ELSE disk

\* updatePosition, up to the point where its save has opened the file
DiskUpdatePosition ==
    /\ disk.proc = "running"
    /\ hist.calls < MaxLedgerCalls
    /\ nextOid <= MaxObjects
    /\ \E c \in LedgerCalls, txHash \in LedgerHashes \ {NoHash} :
          /\ Committed(txHash,
                       updatePosition(LedgerState, nextOid, "M", "YES", LabelOf["YES"],
                                      c.sizeShares, c.price, txHash, c.actionReason,
                                      c.tokenId, "SINGLE"))
          /\ hist' = [hist EXCEPT !.calls = @ + 1]
    /\ UNCHANGED <<clock, detached, pendingCloses, activity, lifecycle, loop>>

\* writeFileSync returns: the whole text is in the file
DiskWriteCompletes ==
    /\ disk.proc = "saving"
    /\ disk' = saveEnds(disk, LedgerState)
    /\ UNCHANGED <<clock, ledgerVars, nextOid, detached, pendingCloses, activity, lifecycle,
                   loop, last, hist>>

\* the process dies, at any point
DiskCrash ==
    /\ disk.proc \in {"running", "saving"}
    /\ disk' = [disk EXCEPT !.proc = "crashed"]
    /\ UNCHANGED <<clock, ledgerVars, nextOid, detached, pendingCloses, activity, lifecycle,
                   loop, last, hist>>

\* the process starts again: the constructor loads the file
DiskRestart ==
    /\ disk.proc = "crashed"
    /\ SetLedger(loadLedger(disk.file))
    /\ disk' = [disk EXCEPT !.proc = "running"]
    /\ last' = NoCall
    /\ UNCHANGED <<clock, nextOid, detached, pendingCloses, activity, lifecycle, loop, hist>>

NextDisk == DiskUpdatePosition \/ DiskWriteCompletes \/ DiskCrash \/ DiskRestart

SpecDisk == Init /\ [][NextDisk]_vars

\* ------------------------------------------------------------------------
\* Position objects.  tryClosePosition and manageLifecycle keep a reference
\* to a position object across an await; the object may meanwhile have left
\* the positions map (closed, or replaced by its migrated copy).
\* ------------------------------------------------------------------------
isLive(s, oid) == \E k \in Keys : s.positions[k] # NoPos /\ s.positions[k].oid = oid

keyOfOid(s, oid) == CHOOSE k \in Keys : s.positions[k] # NoPos /\ s.positions[k].oid = oid

\* the object behind a reference
deref(s, det, oid) ==
    IF isLive(s, oid) THEN s.positions[keyOfOid(s, oid)]
    ELSE CHOOSE d \in det : d.oid = oid

\* assignment to fields of the referenced object
closingFields(pos, priority, trigger, cause) ==
    [pos EXCEPT !.state = "CLOSING", !.closePriority = priority,
                !.closeTrigger = trigger, !.closeCause = cause]

revertedFieldsKeepingPriority(pos) ==
    [pos EXCEPT !.state = "OPEN", !.closeTrigger = NoValue, !.closeCause = NoValue]

revertedFields(pos) ==
    [pos EXCEPT !.state = "OPEN", !.closePriority = 0,
                !.closeTrigger = NoValue, !.closeCause = NoValue]

\* ------------------------------------------------------------------------
\* TradingEngine.getPriority
\* ------------------------------------------------------------------------
getPriorityOfResolution(trigger) == 1

getPriority(trigger) ==
    CASE trigger = "MARKET_RESOLUTION" -> 1
      [] trigger = "SYSTEM_GUARD" -> 2
      [] trigger = "USER_ACTION" -> 3
      [] trigger = "COPY_TRADER_EVENT" -> 4
      [] trigger = "SYSTEM_POLICY" -> 5
      [] trigger = "TIMEOUT" -> 6
      [] OTHER -> 99

\* ------------------------------------------------------------------------
\* TradingEngine.tryClosePosition
\* ------------------------------------------------------------------------
MIN_HOLD_MS == 5000

\* the position found by tryClosePosition / manualClosePosition: canonical
\* key first, then the legacy key
lookupKey(s, marketId, side, tokenId, outcomeLabel) ==
    LET posKey == canonicalKeyOf(marketId, side, outcomeLabel, tokenId)
    IN IF s.positions[posKey] # NoPos THEN posKey
       ELSE IF s.positions[LegacyKey(marketId, side)] # NoPos
            THEN LegacyKey(marketId, side)
            ELSE posKey

isAllowedState(pos, trigger) ==
    \/ pos.state = "OPEN"
    \/ (pos.state = "PENDING_RESOLUTION" /\ trigger = "MARKET_RESOLUTION")

minHoldBlocks(pos, trigger) ==
    /\ trigger # "USER_ACTION"
    /\ trigger # "MARKET_RESOLUTION"
    /\ clock - pos.lastEntryTime < MIN_HOLD_MS

priorityBlocks(pos, trigger) ==
    pos.closePriority # 0 /\ getPriority(trigger) > pos.closePriority

\* steps 1 to 3: existence, state, minimum hold, priority
passesGates(s, marketId, side, trigger, tokenId, outcomeLabel) ==
    LET posKey == lookupKey(s, marketId, side, tokenId, outcomeLabel)
        pos == s.positions[posKey]
    IN /\ pos # NoPos
       /\ isAllowedState(pos, trigger)
       /\ ~minHoldBlocks(pos, trigger)
       /\ ~priorityBlocks(pos, trigger)

resolutionPriceOfWinner(cause, side) == PriceScale

\* step 4 for MARKET_RESOLUTION: 1.0 for the winning side, else 0.0
resolutionPrice(cause, side) ==
    IF (cause = "WINNER_YES" /\ side = "YES") \/ (cause = "WINNER_NO" /\ side = "NO")
    THEN PriceScale ELSE 0

\* step 4 for a market-based close; marketPrice = NoBook when getLivePrice
\* returns null or throws
NoBook == [bestBid |-> 0, bestAsk |-> 0]

marketExitPrice(pos, side, marketPrice) ==
    IF marketPrice # NoBook
    THEN IF side = "YES" THEN marketPrice.bestBid ELSE PriceScale - marketPrice.bestAsk
    ELSE pos.currentPrice

\* Math.max(0, Math.min(1, exitPrice))
clampPrice(p) == Max(0, Min(PriceScale, p))

\* `${trigger}-${Date.now()}`: the hash of the trigger and the current
\* millisecond (see later, below, for the passing of time)
closeTxHash(trigger) == <<trigger, "ms">>

\* the end of step 6: r is what updatePosition returned for the object
\* `oid`; on failure the object is reverted so that the close can be retried
closeOutcome(r, det1, oid, sizeShares, price) ==
    IF r.ok
    THEN [s |-> r.s, det |-> det1 \cup r.dead, alloc |-> r.alloc, ok |-> TRUE,
          sizeShares |-> sizeShares, price |-> price]
    ELSE [s |-> IF isLive(r.s, oid)
                THEN [r.s EXCEPT !.positions =
                         [@ EXCEPT ![keyOfOid(r.s, oid)] = revertedFields(@)]]
                ELSE r.s,
          det |-> {IF d.oid = oid THEN revertedFields(d) ELSE d : d \in det1 \cup r.dead},
          alloc |-> r.alloc, ok |-> FALSE,
          sizeShares |-> sizeShares, price |-> price]

\* step 5: the object `pos` marked CLOSING, in the map or out of it
markClosing(s, det, pos, marked) ==
    IF isLive(s, pos.oid)
    THEN [s |-> [s EXCEPT !.positions = [@ EXCEPT ![keyOfOid(s, pos.oid)] = marked]],
          det |-> det]
    ELSE [s |-> s, det |-> (det \ {pos}) \cup {marked}]

\* step 6 on the marked object: the ledger call and its outcome
commitMarked(m, fresh, pos, marketId, side, trigger, cause, price) ==
    closeOutcome(updatePosition(m.s, fresh, marketId, side, pos.outcomeLabel,
                                -pos.size, price, closeTxHash(trigger),
                                Piped(trigger, cause), pos.tokenId, pos.marketType),
                 m.det, pos.oid, -pos.size, price)

\* the clamp, then steps 5 and 6 on the object `pos`
commitPosition(s, det, fresh, pos, marketId, side, trigger, cause, exitPrice) ==
    commitMarked(markClosing(s, det, pos,
                             closingFields(pos, getPriority(trigger), trigger, cause)),
                 fresh, pos, marketId, side, trigger, cause, clampPrice(exitPrice))

\* the same on the object `oid` a caller holds
commitClose(s, det, fresh, oid, marketId, side, trigger, cause, exitPrice) ==
    commitPosition(s, det, fresh, deref(s, det, oid), marketId, side, trigger, cause,
                   exitPrice)

\* tryClosePosition called with a forced price or for a resolution: it
\* runs to completion without awaiting
tryCloseNow(s, det, fresh, marketId, side, trigger, cause, forcePrice, tokenId, outcomeLabel) ==
    IF ~passesGates(s, marketId, side, trigger, tokenId, outcomeLabel)
    THEN [s |-> s, det |-> det, alloc |-> FALSE, ok |-> FALSE,
          sizeShares |-> 0, price |-> 0]
    ELSE LET pos == s.positions[lookupKey(s, marketId, side, tokenId, outcomeLabel)]
             exitPrice == IF trigger = "MARKET_RESOLUTION"
                          THEN resolutionPrice(cause, side)
                          ELSE forcePrice
         IN commitClose(s, det, fresh, pos.oid, marketId, side, trigger, cause,
                        exitPrice)

\* ------------------------------------------------------------------------
\* TradingEngine.settlePosition (called with isWinner)
\* ------------------------------------------------------------------------
settleCause(isWinner, side) ==
    IF isWinner
    THEN (IF side = "YES" THEN "WINNER_YES" ELSE "WINNER_NO")
    ELSE (IF side = "YES" THEN "WINNER_NO" ELSE "WINNER_YES")

settlePosition(s, det, fresh, marketId, side, tokenId, outcomeLabel, isWinner) ==
    tryCloseNow(s, det, fresh, marketId, side, "MARKET_RESOLUTION",
                settleCause(isWinner, side), 0, tokenId, outcomeLabel)

\* ------------------------------------------------------------------------
\* The venue
\* ------------------------------------------------------------------------
\* MarketLifecycle.getMarketLifecycle of the market's container
Lifecycles == {"ACTIVE", "PENDING_RESOLUTION", "CLOSED_YES", "CLOSED_NO"}

lifecycleState(lc) == IF lc \in {"CLOSED_YES", "CLOSED_NO"} THEN "CLOSED" ELSE lc

winningOutcomeLabel(lc) == IF lc = "CLOSED_YES" THEN "Yes" ELSE "No"

\* order books the venue may return for an outcome token; NoBook when the
\* request fails or a side of the book is empty
NormalBook == [bestBid |-> fromTick(420), bestAsk |-> fromTick(440)]
CeilingBook == [bestBid |-> fromTick(998), bestAsk |-> fromTick(999)]
Books == {NoBook, NormalBook, CeilingBook}

\* what getLivePrice may return for the market
LivePrices == {NoBook, NormalBook}

\* ------------------------------------------------------------------------
\* Bounds of the engine specification
\* ------------------------------------------------------------------------
MaxTrades == 2      \* source trades appearing on the venue
MaxRequests == 2    \* close requests the dashboard gets through the state gate

\* ------------------------------------------------------------------------
\* Source activity items
\* ------------------------------------------------------------------------
\* parseFloat of a price field that is not a number
NaN == -1

\* toTick: if (typeof price !== "number" || isNaN(price)) throw
throwsInvalidPrice(price) == price = NaN

sourceTrade(n, rawSide, outcome, size, price) ==
    [txHash |-> <<"tx", n>>, side |-> rawSide, outcome |-> outcome,
     size |-> size, price |-> price]

\* the source trades at the touch of NormalBook
SourceTemplates ==
    {[side |-> "BUY", outcome |-> "Yes", price |-> fromTick(440)],
     [side |-> "SELL", outcome |-> "Yes", price |-> fromTick(420)]}

SourceSize == Shares(100)

\* config.FIXED_COPY_PCT = 0.10, config.MIN_ORDER_SIZE_SHARES = 1
FIXED_COPY_PCT_DEN == 10
MIN_ORDER_SIZE_SHARES == 1

\* ------------------------------------------------------------------------
\* TradingEngine.processAutoTrade, from the sizing step on
\* (ENABLE_TRADE_FILTERS is false: the loss guard and the slippage gate
\* never skip a trade)
\* ------------------------------------------------------------------------
sideOfLabel(label) == IF label \in {"No", "NO"} THEN "NO" ELSE "YES"

executionTickOf(act, book) ==
    IF book = NoBook THEN toTick(act.price)
    ELSE IF act.side = "BUY" THEN toTick(book.bestAsk)
    ELSE toTick(book.bestBid)

copyShares(sourceSize) ==
    Max(sourceSize \div FIXED_COPY_PCT_DEN, Shares(MIN_ORDER_SIZE_SHARES))

sellLookupKeyCanonical(marketId, side, tokenId, outcomeLabel) ==
    canonicalKeyOf(marketId, side, outcomeLabel, tokenId)

\* the position processAutoTrade consults before a SELL
sellLookupKey(marketId, side, tokenId, outcomeLabel) == LegacyKey(marketId, side)

\* r is what updatePosition returned for the replicated BUY
buyOutcome(r, det, myShares, executionPrice) ==
    [s |-> r.s, det |-> det \cup r.dead, alloc |-> r.alloc, ok |-> r.ok,
     sizeShares |-> myShares, price |-> executionPrice]

executeTrade(s, det, fresh, marketId, act, executionTick) ==
    LET side == sideOfLabel(act.outcome)
        tokenId == TokenOf[side]
        executionPrice == fromTick(executionTick)
        currentPos == s.positions[sellLookupKey(marketId, side, tokenId, act.outcome)]
        ownedShares == IF currentPos # NoPos THEN currentPos.size ELSE 0
        myShares == IF act.side = "BUY" THEN copyShares(act.size)
                    ELSE Min(copyShares(act.size), ownedShares)
    IN IF act.side = "BUY"
       THEN buyOutcome(updatePosition(s, fresh, marketId, side, act.outcome, myShares,
                                      executionPrice, act.txHash, Plain("COPY_TRADE"),
                                      tokenId, "SINGLE"),
                       det, myShares, executionPrice)
       ELSE IF myShares <= 0
       THEN [s |-> s, det |-> det, alloc |-> FALSE, ok |-> FALSE,
             sizeShares |-> 0, price |-> 0]
       ELSE tryCloseNow(s, det, fresh, marketId, side, "COPY_TRADER_EVENT",
                        "TARGET_SELLOFF", executionPrice, tokenId, act.outcome)

\* ------------------------------------------------------------------------
\* TradingEngine.manageLifecycle: one position of the snapshot
\* ------------------------------------------------------------------------
lifecycleKey(pos) == IF pos.positionId # NoKey THEN pos.positionId ELSE <<"raw", pos.marketId>>

sweepPosition(s, det, fresh, pos, lc) ==
    LET unchanged == [s |-> s, det |-> det, alloc |-> FALSE, ok |-> FALSE,
                      sizeShares |-> 0, price |-> 0]
    IN CASE lifecycleState(lc) = "PENDING_RESOLUTION" ->
              IF pos.state # "PENDING_RESOLUTION" /\ pos.state # "CLOSED"
              THEN [unchanged EXCEPT
                      !.s = updatePositionState(s, lifecycleKey(pos), "PENDING_RESOLUTION")]
              ELSE unchanged
         [] lifecycleState(lc) = "CLOSED" ->
              IF pos.state # "CLOSED" /\ pos.state # "SETTLED"
              THEN settlePosition(s, det, fresh, pos.marketId, pos.side, pos.tokenId,
                                  pos.outcomeLabel,
                                  winningOutcomeLabel(lc) = pos.outcomeLabel)
              ELSE unchanged
         [] OTHER ->
              IF pos.state = "PENDING_RESOLUTION"
              THEN [unchanged EXCEPT
                      !.s = updatePositionState(s, lifecycleKey(pos), "OPEN")]
              ELSE unchanged

\* ------------------------------------------------------------------------
\* Spec: the engine.  One polling loop, dashboard close requests, the venue.
\* Handlers are atomic between awaits (one JavaScript thread).
\* ------------------------------------------------------------------------
pendingOids(pend) == {c.oid : c \in BagToSet(pend)}

\* objects out of the map are kept only while a suspended caller holds them
collect(det, pend, sweep) == {d \in det : d.oid \in pendingOids(pend) \cup sweep}

pidsPending(s, det, pend) == {deref(s, det, c.oid).pid : c \in BagToSet(pend)}

Apply(r) ==
    /\ SetLedger(r.s)
    /\ nextOid' = IF r.alloc THEN nextOid + 1 ELSE nextOid


\* what the catch block of tryClosePosition leaves on the object `oid` it
\* held, when the commit r failed (oid is 0 when no commit was made)
afterFailure(h, r, oid) ==
    IF r.ok \/ oid = 0 THEN h
    ELSE [h EXCEPT !.failed = @ \cup {[state |-> deref(r.s, r.det, oid).state,
                                        closePriority |-> deref(r.s, r.det, oid).closePriority,
                                        closeTrigger |-> deref(r.s, r.det, oid).closeTrigger,
                                        closeCause |-> deref(r.s, r.det, oid).closeCause]}]

\* --- the venue -------------------------------------------------------
SourceTrade ==
    /\ Len(activity) < MaxTrades
    /\ \E t \in SourceTemplates :
          activity' = Append(activity,
                             sourceTrade(Len(activity) + 1, t.side, t.outcome,
                                         SourceSize, t.price))
    /\ loop.pc = "fetch"
    /\ hist' = [hist EXCEPT !.applied = Append(@, 0)]
    /\ UNCHANGED <<clock, disk, ledgerVars, nextOid, detached, pendingCloses, lifecycle, loop, last>>

VenueLifecycle ==
    /\ \E lc \in Lifecycles :
          /\ lc # lifecycle
          /\ lifecycle \in {"ACTIVE", "PENDING_RESOLUTION"}
          /\ lifecycle' = lc
    /\ loop.pc = "sweep"
    /\ loop.sweep # {}
    /\ UNCHANGED <<clock, disk, ledgerVars, nextOid, detached, pendingCloses, activity, loop, hist, last>>

\* --- time -----------------------------------------------------------
\* A close hash is `${trigger}-${Date.now()}`.  Once the clock has left the
\* millisecond in which it was made, it can never be presented again;
\* processedTxHashes keeps the hashes that still can.  The clock advances
\* while the loop sleeps, and may or may not advance before any commit.
isCloseHash(txHash) == Len(txHash) = 2 /\ txHash[1] \in CloseTriggers

later(s) == [s EXCEPT !.processedTxHashes = {h \in @ : ~isCloseHash(h)}]

\* the ledger as a handler finds it: in the millisecond of the previous
\* commit, or later
Now == {LedgerState, later(LedgerState)}

\* --- the polling loop ------------------------------------------------
isDuplicate(events, txHash) == \E i \in DOMAIN events : events[i].eventId = txHash

\* items stopped by the dedup filter of processAutoTrade
RECURSIVE skipDuplicates(_, _)
skipDuplicates(batch, events) ==
    IF batch = <<>> THEN batch
    ELSE IF isDuplicate(events, activity[Head(batch)].txHash)
         THEN skipDuplicates(Tail(batch), events)
         ELSE batch

\* tickCount % 10, kept as 0 (the sweep is due) or 1 (it is not): the model
\* leaves open how many of the nine iterations between two sweeps are over
TickCounts == {0, 1}

nextTicks(tickCount) == IF tickCount = 0 THEN {1} ELSE TickCounts

\* the loop runs on to its next await: the first item that passes the dedup
\* filter waits for its market data; after the last item, every tenth
\* iteration, manageLifecycle takes a snapshot of the positions and waits
\* for the first container; otherwise the iteration ends and the loop
\* sleeps, then waits for getUserActivity
continueLoop(l, s) ==
    LET rest == skipDuplicates(l.batch, s.tradeEvents)
    IN IF rest # <<>>
       THEN {[l EXCEPT !.pc = "book", !.batch = rest]}
       ELSE IF l.tickCount = 0 /\ liveOids(s) # {}
       THEN {[l EXCEPT !.pc = "sweep", !.batch = <<>>, !.sweep = liveOids(s)]}
       ELSE {[l EXCEPT !.pc = "fetch", !.batch = <<>>, !.tickCount = t] :
                t \in nextTicks(l.tickCount)}

StartPolling ==
    /\ loop.pc = "off"
    /\ ~loop.isPolling
    /\ loop' = [loop EXCEPT !.pc = "fetch", !.isPolling = TRUE]
    /\ UNCHANGED <<clock, disk, ledgerVars, nextOid, detached, pendingCloses, activity, lifecycle, hist, last>>

\* PolymarketService.getUserActivity: the venue lists the items of the
\* account newest first; an item is named by its place in `activity`, which
\* is the order of the timestamps
getUserActivity(n) == [i \in 1..n |-> n + 1 - i]

unreversed(activities) == activities

\* activities.reverse()
reverse(activities) == [i \in 1..Len(activities) |-> activities[Len(activities) + 1 - i]]

\* getUserActivity returned; the items are processed oldest first
Poll ==
    /\ loop.pc = "fetch"
    /\ SetLedger(later(LedgerState))
    /\ loop' \in continueLoop([loop EXCEPT
                                 !.batch = reverse(getUserActivity(Len(activity)))],
                              LedgerState)
    /\ last' = NoCall
    /\ UNCHANGED <<clock, disk, nextOid, detached, pendingCloses, activity, lifecycle, hist>>

\* processAutoTrade returns without executing its item
SkipTrade ==
    /\ loop' \in continueLoop([loop EXCEPT !.batch = Tail(@)], LedgerState)
    /\ last' = NoCall
    /\ UNCHANGED <<clock, disk, ledgerVars, nextOid, detached, pendingCloses, activity, lifecycle, hist>>

SkipAtCeilingMarkingHash ==
    /\ loop' \in continueLoop([loop EXCEPT !.batch = Tail(@)], LedgerState)
    /\ last' = NoCall
    /\ hist' = [hist EXCEPT !.skipped = @ \cup {Head(loop.batch)}]
    /\ SetLedger(markAsProcessed(LedgerState, activity[Head(loop.batch)].txHash))
    /\ UNCHANGED <<clock, disk, nextOid, detached, pendingCloses, activity, lifecycle>>

\* processAutoTrade returns because the tick is still at the ceiling after
\* the 30 s wait
SkipAtCeiling ==
    /\ loop' \in continueLoop([loop EXCEPT !.batch = Tail(@)], LedgerState)
    /\ last' = NoCall
    /\ hist' = [hist EXCEPT !.skipped = @ \cup {Head(loop.batch)}]
    /\ UNCHANGED <<clock, disk, ledgerVars, nextOid, detached, pendingCloses, activity,
                   lifecycle>>

\* the effect of the rest of processAutoTrade on item n at executionTick
Executed(n, executionTick, r) ==
    LET changed == <<r.s.balance, r.s.positions, r.s.closedPositions>>
                      # <<balance, positions, closedPositions>>
    IN /\ Apply(r)
       /\ loop' \in continueLoop([loop EXCEPT !.batch = Tail(@)], r.s)
       /\ detached' = collect(r.det, pendingCloses, {})
       /\ hist' = [afterFailure(recorded(hist, r.sizeShares, r.price, r.ok), r,
                                 IF activity[n].side = "SELL" /\ r.sizeShares # 0
                                 THEN LedgerState.positions[
                                         lookupKey(LedgerState, "M",
                                                   sideOfLabel(activity[n].outcome),
                                                   TokenOf[sideOfLabel(activity[n].outcome)],
                                                   activity[n].outcome)].oid
                                 ELSE 0) EXCEPT
                      !.applied[n] = IF changed THEN @ + 1 ELSE @,
                      !.raced = IF activity[n].side = "SELL" /\ r.sizeShares # 0
                                THEN @ \cup (pidsPending(LedgerState, detached, pendingCloses)
                                               \cap {p.pid : p \in r.det})
                                ELSE @]
       /\ last' = [op |-> "processAutoTrade", tick |-> executionTick]
       /\ UNCHANGED <<clock, disk, pendingCloses, activity, lifecycle>>

Execute(n, executionTick) ==
    \E now \in Now :
       Executed(n, executionTick,
                executeTrade(now, detached, nextOid, "M", activity[n], executionTick))

isBlacklistedNever(blacklistedMarketIds, marketId) == FALSE

\* PositionFilter.isBlacklisted
isBlacklisted(blacklistedMarketIds, marketId) == marketId \in blacklistedMarketIds

\* the market data of the item arrived: without a market model the item is
\* skipped; at the price ceiling the item waits 30 s; else it is executed
\* (an item of a blacklisted market has returned before: see SpecFilter)
ProcessAutoTradeBook ==
    /\ loop.pc = "book"
    /\ ~isBlacklisted(loop.blacklistedMarketIds, "M")
    /\ \/ SkipTrade
       \/ \E book \in Books :
             LET n == Head(loop.batch)
                 executionTick == executionTickOf(activity[n], book)
             IN /\ ~throwsInvalidPrice(activity[n].price)
                /\ IF executionTick >= MAX_TICK
                   THEN /\ loop' = [loop EXCEPT !.pc = "wait"]
                        /\ last' = NoCall
                        /\ UNCHANGED <<clock, disk, ledgerVars, nextOid, detached,
                                       pendingCloses, activity, lifecycle, hist>>
                   ELSE Execute(n, executionTick)

\* after the wait: the book is fetched again
ProcessAutoTradeRefetch ==
    /\ loop.pc = "wait"
    /\ \E book \in Books :
          LET n == Head(loop.batch)
              executionTick == IF book = NoBook THEN MAX_TICK
                               ELSE executionTickOf(activity[n], book)
          IN IF executionTick >= MAX_TICK
             THEN SkipAtCeiling
             ELSE Execute(n, executionTick)

\* getMarketDetails for one position of the snapshot returned; after the
\* last position the iteration ends
Swept(pos, container, rest, r) ==
    /\ Apply(r)
    /\ loop' \in IF rest # {} THEN {[loop EXCEPT !.sweep = rest]}
                 ELSE {[loop EXCEPT !.pc = "fetch", !.sweep = {}, !.tickCount = t] :
                          t \in nextTicks(loop.tickCount)}
    /\ detached' = collect(r.det, pendingCloses, rest)
    /\ hist' = [afterFailure(recorded(hist, r.sizeShares, r.price, r.ok), r,
                             IF r.sizeShares # 0 THEN pos.oid ELSE 0) EXCEPT
                   !.raced = IF r.sizeShares # 0
                             THEN @ \cup (pidsPending(LedgerState, detached, pendingCloses)
                                            \cap {pos.pid})
                             ELSE @]
    /\ last' = [op |-> "manageLifecycle",
                lc |-> IF container THEN lifecycle ELSE "NONE"]

SweepStep ==
    /\ loop.pc = "sweep"
    /\ \E oid \in loop.sweep, container \in BOOLEAN, now \in Now :
          Swept(deref(LedgerState, detached, oid), container, loop.sweep \ {oid},
                IF container
                THEN sweepPosition(now, detached, nextOid,
                                   deref(LedgerState, detached, oid), lifecycle)
                ELSE [s |-> LedgerState, det |-> detached, alloc |-> FALSE,
                      ok |-> FALSE, sizeShares |-> 0, price |-> 0])
    /\ UNCHANGED <<clock, disk, pendingCloses, activity, lifecycle>>

\* --- the dashboard ---------------------------------------------------
closeCall(oid, marketId, side, trigger, cause) ==
    [oid |-> oid, marketId |-> marketId, side |-> side, trigger |-> trigger,
     cause |-> cause]

\* POST /api/close -> manualClosePosition -> tryClosePosition up to its
\* await on getLivePrice
ManualClose ==
    \E side \in Sides : \E tokenId \in {TokenOf[side], NoValue} :
       LET s == LedgerState
           pos == s.positions[lookupKey(s, "M", side, tokenId, LabelOf[side])]
           admitted == passesGates(s, "M", side, "USER_ACTION", tokenId, LabelOf[side])
       IN /\ admitted => hist.requests < MaxRequests
          /\ pendingCloses' =
                IF admitted
                THEN pendingCloses (+) SetToBag({closeCall(pos.oid, "M", side,
                                                   "USER_ACTION", "MANUAL_CLOSE")})
                ELSE pendingCloses
          /\ hist' = [hist EXCEPT
                        !.requests = IF admitted THEN @ + 1 ELSE @,
                        !.raced = IF admitted /\ pos.oid \in pendingOids(pendingCloses)
                                  THEN @ \cup {pos.pid} ELSE @,
                        !.gated = IF pos # NoPos /\ isAllowedState(pos, "USER_ACTION")
                                     /\ priorityBlocks(pos, "USER_ACTION")
                                  THEN @ \cup {pos.pid} ELSE @]
          /\ UNCHANGED <<clock, disk, ledgerVars, nextOid, detached, activity, lifecycle, loop, last>>

\* getLivePrice returned (or failed): steps 4 to 6 of tryClosePosition
Returned(rest, r) ==
    /\ Apply(r)
    /\ pendingCloses' = rest
    /\ detached' = collect(r.det, rest, loop.sweep)
    /\ hist' = afterFailure(recorded(hist, r.sizeShares, r.price, r.ok), r,
                            (CHOOSE c \in BagToSet(pendingCloses (-) rest) : TRUE).oid)
    /\ UNCHANGED <<clock, disk, activity, lifecycle, loop, last>>

TryCloseResume ==
    \E c \in BagToSet(pendingCloses), marketPrice \in LivePrices, now \in Now :
       Returned(pendingCloses (-) SetToBag({c}),
                commitClose(now, detached, nextOid, c.oid, c.marketId,
                            c.side, c.trigger, c.cause,
                            marketExitPrice(deref(LedgerState, detached, c.oid),
                                            c.side, marketPrice)))

Next ==
    \/ SourceTrade
    \/ VenueLifecycle
    \/ StartPolling
    \/ Poll
    \/ ProcessAutoTradeBook
    \/ ProcessAutoTradeRefetch
    \/ SweepStep
    \/ ManualClose
    \/ TryCloseResume

Spec == Init /\ [][Next]_vars

\* ------------------------------------------------------------------------
\* SpecHold: buys and close attempts on one outcome, with the clock
\* ------------------------------------------------------------------------
MaxSeconds == 6     \* seconds the clock runs on

\* a call of the engine has returned r
Held(r, call) ==
    /\ Apply(r)
    /\ detached' = collect(r.det, pendingCloses, {})
    /\ hist' = [recorded(hist, r.sizeShares, r.price, r.ok) EXCEPT !.calls = @ + 1]
    /\ last' = call
    /\ UNCHANGED <<clock, disk, pendingCloses, activity, lifecycle, loop>>

\* processAutoTrade replicates a source BUY of the outcome
HoldBuy ==
    /\ hist.calls < MaxLedgerCalls
    /\ nextOid <= MaxObjects
    /\ Held(executeTrade(LedgerState, detached, nextOid, "M",
                         sourceTrade(hist.calls + 1, "BUY", "Yes", SourceSize,
                                     fromTick(440)),
                         440),
            [op |-> "processAutoTrade", tick |-> 440])

\* tryClosePosition is called with a forced price, for any trigger
HoldClose ==
    /\ hist.calls < MaxLedgerCalls
    /\ \E trigger \in CloseTriggers :
          Held(tryCloseNow(LedgerState, detached, nextOid, "M", "YES", trigger,
                           IF trigger = "MARKET_RESOLUTION" THEN "WINNER_YES"
                           ELSE "TARGET_SELLOFF",
                           fromTick(420), TokenOf["YES"], LabelOf["YES"]),
               [op |-> "tryClosePosition", trigger |-> trigger])

\* a second passes
HoldTick ==
    /\ clock < DateNow + MaxSeconds * 1000
    /\ clock' = clock + 1000
    /\ SetLedger(later(LedgerState))
    /\ UNCHANGED <<disk, nextOid, detached, pendingCloses, activity, lifecycle, loop,
                   last, hist>>

NextHold == HoldBuy \/ HoldClose \/ HoldTick

SpecHold == Init /\ [][NextHold]_vars

\* ------------------------------------------------------------------------
\* SpecPrice: price updates between replications and closes
\* ------------------------------------------------------------------------
\* prices a websocket message may carry
PriceUpdates == {fromTick(430), fromTick(600)}

updateRealTimePriceIntoEntry(s, marketId, price, tokenId) ==
    [s EXCEPT !.positions =
        [k \in Keys |->
            IF @[k] # NoPos /\ @[k].marketId = marketId /\ @[k].tokenId = tokenId
            THEN [@[k] EXCEPT !.currentPrice = price, !.entryTick = toTick(price)]
            ELSE @[k]]]

\* LedgerService.updateRealTimePrice: the price of the token, or without a
\* tokenId the side-based price, on every position of the market
updateRealTimePrice(s, marketId, price, tokenId) ==
    [s EXCEPT !.positions =
        [k \in Keys |->
            IF @[k] = NoPos \/ @[k].marketId # marketId THEN @[k]
            ELSE IF tokenId # NoValue /\ @[k].tokenId = tokenId
            THEN [@[k] EXCEPT !.currentPrice = price]
            ELSE IF tokenId = NoValue
            THEN [@[k] EXCEPT !.currentPrice = IF @[k].side = "YES" THEN price
                                               ELSE PriceScale - price]
            ELSE @[k]]]

\* the tokens of tokenMetaMap: OPEN positions that have a tokenId
subscribedTokens(s) ==
    {s.positions[k].tokenId :
        k \in {kk \in Keys : /\ s.positions[kk] # NoPos
                              /\ s.positions[kk].state = "OPEN"
                              /\ s.positions[kk].tokenId # NoValue}}

\* the next value of the mark that tells two price updates in a row apart
priceSeq(l) == IF l.op = "priceUpdate" THEN 1 - l.seq ELSE 0

\* handleWebsocketMessage: one update of a subscribed token
HandleWebsocketMessage ==
    /\ \E tokenId \in subscribedTokens(LedgerState), finalPrice \in PriceUpdates :
          SetLedger(updateRealTimePrice(LedgerState, "M", finalPrice, tokenId))
    /\ last' = [op |-> "priceUpdate", seq |-> priceSeq(last)]
    /\ UNCHANGED <<clock, disk, nextOid, detached, pendingCloses, activity, lifecycle,
                   loop, hist>>

\* the mid price of the book of the token
midPrice(orderBook) == (orderBook.bestBid + orderBook.bestAsk) \div 2

\* the REST fallback: getOrderBookForToken has returned for the object
\* `pos` of the snapshot, which may have left the map during the await
RestPriceUpdate ==
    /\ \E pos \in {positions[k] : k \in {kk \in Keys : positions[kk] # NoPos}}
                   \cup detached,
          orderBook \in Books \ {NoBook} :
          /\ pos.tokenId # NoValue
          /\ IF isLive(LedgerState, pos.oid)
             THEN /\ positions' = [positions EXCEPT ![keyOfOid(LedgerState, pos.oid)] =
                                       [@ EXCEPT !.currentPrice = midPrice(orderBook)]]
                  /\ UNCHANGED detached
             ELSE /\ detached' = (detached \ {pos})
                                    \cup {[pos EXCEPT !.currentPrice = midPrice(orderBook)]}
                  /\ UNCHANGED positions
    /\ last' = [op |-> "priceUpdate", seq |-> priceSeq(last)]
    /\ UNCHANGED <<clock, disk, balance, closedPositions, tradeEvents, processedTxHashes,
                   nextOid, pendingCloses, activity, lifecycle, loop, hist>>

NextPrice ==
    \/ HoldBuy
    \/ HoldClose
    \/ ManualClose
    \/ TryCloseResume
    \/ HandleWebsocketMessage
    \/ RestPriceUpdate

SpecPrice == Init /\ [][NextPrice]_vars

\* manageLifecycle runs when tickCount % 10 === 0
SweepPeriod == 10

\* ------------------------------------------------------------------------
\* SpecStop: the dashboard stops and starts the engine while the loop runs
\* ------------------------------------------------------------------------
\* stopPolling
StopPolling ==
    /\ loop.isPolling
    /\ loop' = [loop EXCEPT !.isPolling = FALSE, !.stopped = TRUE]
    /\ UNCHANGED <<clock, disk, ledgerVars, nextOid, detached, pendingCloses, activity,
                   lifecycle, hist, last>>

MaxOtherLoops == 1      \* loops begun while an earlier loop is still alive

\* startPolling while the loop that was told to stop is still at an await:
\* the flag is set again and a second loop begins
StartPollingAgain ==
    /\ ~loop.isPolling
    /\ loop.pc # "off"
    /\ loop.others < MaxOtherLoops
    /\ loop' = [loop EXCEPT !.isPolling = TRUE, !.others = @ + 1]
    /\ UNCHANGED <<clock, disk, ledgerVars, nextOid, detached, pendingCloses, activity,
                   lifecycle, hist, last>>

\* getUserActivity returned
ActivityFetched ==
    /\ loop.pc = "fetch"
    /\ loop' = [loop EXCEPT !.pc = "process"]
    /\ SetLedger(later(LedgerState))
    /\ last' = NoCall
    /\ UNCHANGED <<clock, disk, nextOid, detached, pendingCloses, activity, lifecycle, hist>>

\* processAutoTrade replicates an item of the batch
ProcessActivity == loop.pc = "process" /\ HoldBuy

\* what the loop does at a check of the flag: go on to `pc`, or leave
checkFlag(l, pc) ==
    IF l.isPolling THEN [l EXCEPT !.pc = pc]
    ELSE [l EXCEPT !.pc = "off", !.stopped = FALSE]

\* the iteration is over: if (!this.isPolling) break, else sleep
EndIteration ==
    /\ loop.pc = "process"
    /\ loop' = checkFlag([loop EXCEPT !.tickCount = (@ + 1) % SweepPeriod], "sleep")
    /\ UNCHANGED <<clock, disk, ledgerVars, nextOid, detached, pendingCloses, activity,
                   lifecycle, hist, last>>

\* the sleep is over: while (this.isPolling), the next getUserActivity
SleepOver ==
    /\ loop.pc = "sleep"
    /\ loop' = checkFlag(loop, "fetch")
    /\ UNCHANGED <<clock, disk, ledgerVars, nextOid, detached, pendingCloses, activity,
                   lifecycle, hist, last>>

\* a loop begun by a later startPolling finds the flag false and leaves
OtherLoopLeaves ==
    /\ loop.others > 0
    /\ ~loop.isPolling
    /\ loop' = [loop EXCEPT !.others = @ - 1]
    /\ UNCHANGED <<clock, disk, ledgerVars, nextOid, detached, pendingCloses, activity,
                   lifecycle, hist, last>>

NextStop ==
    \/ StartPolling
    \/ StopPolling
    \/ StartPollingAgain
    \/ OtherLoopLeaves
    \/ ActivityFetched
    \/ ProcessActivity
    \/ EndIteration
    \/ SleepOver

SpecStop == Init /\ [][NextStop]_vars

\* ------------------------------------------------------------------------
\* SpecSettle: the loop keeps running and the venue keeps answering
\* ------------------------------------------------------------------------
\* the venue classifies the market anew; a CLOSED market stays CLOSED
MarketMoves ==
    /\ lifecycle \in {"ACTIVE", "PENDING_RESOLUTION"}
    /\ \E lc \in Lifecycles \ {lifecycle} : lifecycle' = lc
    /\ UNCHANGED <<clock, disk, ledgerVars, nextOid, detached, pendingCloses, activity,
                   loop, hist, last>>

\* a source BUY is replicated inside an iteration, before the sweep
ReplicateActivity == loop.pc = "fetch" /\ HoldBuy

\* an iteration without new activity: the sweep begins when it is due and
\* there are positions, else tickCount++ and the loop sleeps
LoopIteration ==
    /\ loop.pc = "fetch"
    /\ SetLedger(later(LedgerState))
    /\ loop' = IF loop.tickCount = 0 /\ liveOids(LedgerState) # {}
               THEN [loop EXCEPT !.pc = "sweep", !.sweep = liveOids(LedgerState)]
               ELSE [loop EXCEPT !.tickCount = (@ + 1) % SweepPeriod]
    /\ last' = NoCall
    /\ UNCHANGED <<clock, disk, nextOid, detached, pendingCloses, activity, lifecycle, hist>>

\* getMarketDetails answered for one position of the snapshot
AnsweredSweepStep ==
    /\ loop.pc = "sweep"
    /\ \E oid \in loop.sweep, now \in Now :
          \E pos \in {deref(LedgerState, detached, oid)} :
             \E r \in {sweepPosition(now, detached, nextOid, pos, lifecycle)} :
                Swept(pos, TRUE, loop.sweep \ {oid}, r)
    /\ UNCHANGED <<clock, disk, pendingCloses, activity, lifecycle>>

NextSettle ==
    \/ StartPolling
    \/ MarketMoves
    \/ ReplicateActivity
    \/ LoopIteration
    \/ AnsweredSweepStep

\* every await of the loop returns
SpecSettle ==
    /\ Init
    /\ [][NextSettle]_vars
    /\ WF_vars(StartPolling)
    /\ WF_vars(LoopIteration)
    /\ WF_vars(AnsweredSweepStep)

\* ========================================================================
\* Properties
\* ========================================================================

\* a step of SpecLedger that is a call of updatePosition
isUpdatePositionCall == hist'.calls = hist.calls + 1 /\ last'.op = "updatePosition"

\* C1: calling updatePosition a second time with the same non-empty txHash
\* leaves the ledger exactly as the first call left it and returns false.
C1_SameHashIsNoOp ==
    [][(/\ isUpdatePositionCall
        /\ last.op = "updatePosition"
        /\ last.txHash # NoHash
        /\ last'.txHash = last.txHash)
       => (LedgerState' = LedgerState /\ ~last'.ok)]_vars

\* C2: at every moment the balance is the starting balance, minus size *
\* tick / 1000 over the accepted buys, plus size * tick / 1000 over the
\* accepted sells (resolution closes included), tick being the tick of the
\* price passed to the ledger.
C2_BalanceIsSumOfTickNotionals ==
    balance = hist.start - hist.buys + hist.sells

\* C3: a call of updatePosition that returns false leaves balance, open
\* positions, closedPositions and tradeEvents unchanged.
C3_RefusedCallChangesNothing ==
    [][(isUpdatePositionCall /\ ~last'.ok)
       => UNCHANGED <<balance, positions, closedPositions, tradeEvents>>]_vars

\* C11: when the process has crashed, at whatever point, the ledger file
\* is the complete text of the ledger as of a save that completed (never a
\* file cut short), so that the restart loads the last persisted ledger.
C11_FileIsACompletedSave ==
    disk.proc = "crashed" =>
        disk.file.text = "complete" /\ disk.file.ledger \in disk.saved

\* C12: after any sequence of updatePosition calls, sells of more shares
\* than the position holds included, no open position has size < 0.
C12_NoNegativeSize ==
    \A k \in Keys : positions[k] # NoPos => positions[k].size >= 0

\* a sell of 30 shares has closed a position of 10
C12_Witness ==
    /\ hist.calls = 1
    /\ closedPositions # <<>>
    /\ Head(closedPositions).size = Shares(30)
    /\ \A k \in Keys : positions[k] = NoPos

\* C13: after any sequence of ledger operations, no open position has
\* size < 0.1.
C13_NoDustInOpenSet ==
    \A k \in Keys : positions[k] # NoPos => ~isDust(positions[k].size)

\* C14: a tryClosePosition call whose trigger is neither USER_ACTION nor
\* MARKET_RESOLUTION, made less than 5 s after the most recent BUY of the
\* position, leaves the positions and the balance unchanged.
C14_MinimumHold ==
    [][(/\ last'.op = "tryClosePosition"
        /\ hist'.calls = hist.calls + 1
        /\ last'.trigger \notin {"USER_ACTION", "MARKET_RESOLUTION"}
        /\ clock - hist.lastBuy < MIN_HOLD_MS)
       => UNCHANGED <<balance, positions, closedPositions>>]_vars

\* ---------------------------------------------------------------- engine
closedOf(pid) == {i \in DOMAIN closedPositions : closedPositions[i].pid = pid}

RECURSIVE sumReturns(_)
sumReturns(records) ==
    IF records = <<>> THEN 0 ELSE Head(records).returnUsd + sumReturns(Tail(records))

\* C4: however often the polls return a source trade, it changes balance,
\* positions and closedPositions at most once; a SELL that closed a position
\* does not close a later position when it reappears.
C4_SourceTradeAppliedAtMostOnce ==
    \A n \in DOMAIN hist.applied : hist.applied[n] <= 1

C4_Witness ==
    /\ loop.pc = "book"
    /\ activity[Head(loop.batch)].side = "SELL"
    /\ hist.applied[Head(loop.batch)] = 1
    /\ positions[TokenKey("M", "t1")] # NoPos
    /\ positions[TokenKey("M", "t1")].pid \notin
          {closedPositions[i].pid : i \in DOMAIN closedPositions}

\* parts of C5: never two records of one position; the proceeds of every
\* record credited once; a position whose racing calls have all returned
\* has its record
C5_AtMostOneRecord ==
    \A pid \in 1..nextOid : Cardinality(closedOf(pid)) <= 1

C5_CreditedOnce ==
    balance = hist.start - hist.spent + sumReturns(closedPositions)

C5_SomeoneWins ==
    \A pid \in hist.raced :
        pid \notin pidsPending(LedgerState, detached, pendingCloses)
            => Cardinality(closedOf(pid)) = 1

\* C5: of the concurrent tryClosePosition calls on one position exactly one
\* wins: closedPositions holds one record of the position once the calls
\* have returned, never two, and the sale proceeds are credited once.
C5_ExactlyOneWinner == C5_AtMostOneRecord /\ C5_CreditedOnce /\ C5_SomeoneWins

\* steps of the engine, told by what they do to the loop and the calls
resumed(c) == CopiesIn(c, pendingCloses') < CopiesIn(c, pendingCloses)
admitted(c) == CopiesIn(c, pendingCloses') > CopiesIn(c, pendingCloses)
held(c) == deref(LedgerState, detached, c.oid)
isExecuteStep ==
    loop.pc \in {"book", "wait"} /\ loop' # loop /\ last'.op = "processAutoTrade"
isSweepStepOn(oid) ==
    loop.pc = "sweep" /\ oid \in loop.sweep /\ (loop'.pc # "sweep" \/ oid \notin loop'.sweep)
ledgerUntouched == UNCHANGED <<balance, positions, closedPositions, tradeEvents>>
closedKept ==
    /\ Len(closedPositions') >= Len(closedPositions)
    /\ \A i \in DOMAIN closedPositions :
          closedPositions'[i + Len(closedPositions') - Len(closedPositions)]
              = closedPositions[i]
soldTarget ==
    LET act == activity[Head(loop.batch)]
        side == sideOfLabel(act.outcome)
    IN positions[lookupKey(LedgerState, "M", side, TokenOf[side], act.outcome)]

\* C6: tryClosePosition changes nothing of balance, positions,
\* closedPositions and tradeEvents unless the position is OPEN, or is
\* PENDING_RESOLUTION and the trigger is MARKET_RESOLUTION; a record in
\* closedPositions is never changed again.
C6_StateGate ==
    [][/\ \A c \in BagToSet(pendingCloses) :
             (resumed(c) /\ ~isAllowedState(held(c), c.trigger)) => ledgerUntouched
       /\ \A c \in BagToSet(pendingCloses') :
             admitted(c) => isAllowedState(held(c), c.trigger)
       /\ (isExecuteStep /\ activity[Head(loop.batch)].side = "SELL"
             /\ soldTarget # NoPos
             /\ ~isAllowedState(soldTarget, "COPY_TRADER_EVENT")) => ledgerUntouched
       /\ \A oid \in loop.sweep :
             (isSweepStepOn(oid) /\ last'.lc \in {"CLOSED_YES", "CLOSED_NO"}
                /\ isLive(LedgerState, oid)
                /\ ~isAllowedState(deref(LedgerState, detached, oid), "MARKET_RESOLUTION"))
             => ledgerUntouched
       /\ closedKept]_vars

\* the priority table of the claim, and an attempt it calls outranked
C7_Priority ==
    [MARKET_RESOLUTION |-> 1, SYSTEM_GUARD |-> 2, USER_ACTION |-> 3,
     COPY_TRADER_EVENT |-> 4, SYSTEM_POLICY |-> 5, TIMEOUT |-> 6]

outranked(pos, trigger) ==
    pos # NoPos /\ pos.closePriority # 0 /\ C7_Priority[trigger] > pos.closePriority

\* C7: a close attempt made on a position that carries closePriority p,
\* with a trigger whose priority is numerically greater than p, is a no-op
\* (it is not let through the gate and changes nothing); the priorities
\* are MARKET_RESOLUTION=1, SYSTEM_GUARD=2, USER_ACTION=3,
\* COPY_TRADER_EVENT=4, SYSTEM_POLICY=5, TIMEOUT=6.
C7_LowerPriorityIsNoOp ==
    [][/\ \A t \in DOMAIN C7_Priority : getPriority(t) = C7_Priority[t]
       /\ \A c \in BagToSet(pendingCloses') :
             admitted(c) => ~outranked(held(c), c.trigger)
       /\ (isExecuteStep /\ activity[Head(loop.batch)].side = "SELL"
             /\ outranked(soldTarget, "COPY_TRADER_EVENT")) => ledgerUntouched]_vars

C7_Witness ==
    \E pid \in hist.gated :
        \E i \in closedOf(pid) : closedPositions[i].closeTrigger = "MARKET_RESOLUTION"

\* C8: a position CLOSING with closePriority 4 whose market the sweep
\* classifies as resolved is closed by MARKET_RESOLUTION: the record added
\* to closedPositions has that trigger and the exit tick of the resolution
\* rule.
C8_ResolutionOverridesCopyClose ==
    [][\A oid \in loop.sweep :
          (/\ isSweepStepOn(oid)
           /\ last'.lc \in {"CLOSED_YES", "CLOSED_NO"}
           /\ isLive(LedgerState, oid)
           /\ deref(LedgerState, detached, oid).state = "CLOSING"
           /\ deref(LedgerState, detached, oid).closePriority = 4)
          => (/\ Len(closedPositions') = Len(closedPositions) + 1
              /\ Head(closedPositions').pid = deref(LedgerState, detached, oid).pid
              /\ Head(closedPositions').closeTrigger = "MARKET_RESOLUTION"
              /\ Head(closedPositions').exitTick \in {1, 999})]_vars

\* C9: every record closed by MARKET_RESOLUTION has exitTick 1 or 999, and
\* 999 exactly when its side is the winning side (cause WINNER_YES with
\* side YES, or WINNER_NO with side NO), the cause being the market's
\* result.
C9_ResolutionTicks ==
    \A i \in DOMAIN closedPositions :
        LET rec == closedPositions[i]
        IN rec.closeTrigger = "MARKET_RESOLUTION" =>
              /\ rec.exitTick \in {1, 999}
              /\ rec.closeCause \in {"WINNER_YES", "WINNER_NO"}
              /\ rec.exitTick = 999 <=>
                    \/ (rec.closeCause = "WINNER_YES" /\ rec.side = "YES")
                    \/ (rec.closeCause = "WINNER_NO" /\ rec.side = "NO")
              /\ rec.closeCause = "WINNER_YES" <=> lifecycle = "CLOSED_YES"
              /\ rec.closeCause = "WINNER_NO" <=> lifecycle = "CLOSED_NO"

C9_Witness ==
    \E i \in DOMAIN closedPositions :
        /\ closedPositions[i].closeTrigger = "MARKET_RESOLUTION"
        /\ closedPositions[i].exitTick = 999
        /\ closedPositions[i].side = "YES"
        /\ lifecycle = "CLOSED_YES"

\* the position of the sold outcome under the canonical key
canonicalTarget ==
    LET act == activity[Head(loop.batch)]
    IN positions[TokenKey("M", TokenOf[sideOfLabel(act.outcome)])]

\* C10: when processAutoTrade executes a source SELL of an outcome whose
\* position is OPEN under the canonical key (marketId, tokenId), the whole
\* position is closed with COPY_TRADER_EVENT / TARGET_SELLOFF at the
\* execution tick, and the balance is credited size * that tick / 1000.
C10_CopySellClosesPosition ==
    [][(/\ isExecuteStep
        /\ activity[Head(loop.batch)].side = "SELL"
        /\ canonicalTarget # NoPos
        /\ canonicalTarget.state = "OPEN")
       => (/\ Len(closedPositions') = Len(closedPositions) + 1
           /\ Head(closedPositions').pid = canonicalTarget.pid
           /\ Head(closedPositions').closeTrigger = "COPY_TRADER_EVENT"
           /\ Head(closedPositions').closeCause = "TARGET_SELLOFF"
           /\ Head(closedPositions').exitTick = last'.tick
           /\ Head(closedPositions').size = canonicalTarget.size
           /\ balance' = balance + canonicalTarget.size * fromTick(last'.tick))]_vars

\* C15: when the execution tick of a source BUY is at the ceiling both at
\* the first fetch and after the 30 s re-fetch, processAutoTrade leaves
\* balance, positions, closedPositions, tradeEvents and processedTxHashes
\* as they are, and the trade still passes the dedup filter of a later poll.
C15_CeilingSkipLeavesLedger ==
    [][\A n \in hist'.skipped \ hist.skipped :
          activity[n].side = "BUY" =>
             /\ UNCHANGED ledgerVars
             /\ ~isDuplicate(tradeEvents', activity[n].txHash)]_vars

\* a BUY skipped at the ceiling has been replicated by a later poll
C15_Witness ==
    \E n \in hist.skipped : activity[n].side = "BUY" /\ hist.applied[n] = 1

withoutPrice(pos) == IF pos = NoPos THEN pos ELSE [pos EXCEPT !.currentPrice = 0]

\* C17: a websocket or REST price update adds no position to and removes
\* none from the open set or closedPositions, and changes neither the
\* balance nor any field of a position other than the current price, in
\* whatever order it runs with replications and closes.
C17_PriceUpdatesOnlyDerivedFields ==
    [][(last' # last /\ last'.op = "priceUpdate") =>
          /\ UNCHANGED <<balance, closedPositions, tradeEvents, processedTxHashes>>
          /\ \A k \in Keys : withoutPrice(positions'[k]) = withoutPrice(positions[k])]_vars

\* a price update has reached an open position while a close was suspended
C17_Witness ==
    /\ last.op = "priceUpdate"
    /\ pendingCloses # EmptyBag
    /\ hist.calls > 0
    /\ \E k \in Keys : positions[k] # NoPos /\ positions[k].currentPrice # 0

\* the position `pid` is in the open set
isOpen(pid) == \E k \in Keys : positions[k] # NoPos /\ positions[k].pid = pid

\* C18: while the loop runs and the venue answers, every open position whose
\* market is classified CLOSED with a winner eventually leaves the open set
\* and is in closedPositions with closeTrigger MARKET_RESOLUTION.
C18_ResolvedMarketsAreSettled ==
    \A pid \in 1..MaxObjects :
       (isOpen(pid) /\ lifecycleState(lifecycle) = "CLOSED")
          ~> (/\ ~isOpen(pid)
              /\ \E i \in closedOf(pid) :
                    closedPositions[i].closeTrigger = "MARKET_RESOLUTION")

\* C19: once stopPolling has been called on the running loop, that loop
\* starts no new poll: it leaves at its next check of the flag.
C19_StoppedLoopStartsNoPoll ==
    [][loop.stopped => ~(loop.pc # "fetch" /\ loop'.pc = "fetch")]_vars

\* C20: tradeEvents only grows, earlier events staying as they are, and it
\* holds one BUY event for every accepted buy, one SELL event for every
\* accepted sell that is not a close by MARKET_RESOLUTION, and nothing else.
C20_OneEventPerTrade ==
    [][/\ Len(tradeEvents') >= Len(tradeEvents)
       /\ SubSeq(tradeEvents', Len(tradeEvents') - Len(tradeEvents) + 1, Len(tradeEvents'))
             = tradeEvents
       /\ countType(tradeEvents', "BUY") = hist'.accepted.buy
       /\ countType(tradeEvents', "SELL") = hist'.accepted.sell
       /\ Len(tradeEvents') = hist'.accepted.buy + hist'.accepted.sell]_vars

\* a buy, a user sell and a close by MARKET_RESOLUTION have been accepted
C20_Witness ==
    /\ hist.calls = 3
    /\ countType(tradeEvents, "BUY") > 0
    /\ countType(tradeEvents, "SELL") > 0
    /\ \E i \in DOMAIN closedPositions :
          closedPositions[i].closeTrigger = "MARKET_RESOLUTION"

\* C21: the balance is never negative, and a buy whose notional
\* |shares * tick / 1000| exceeds the balance is refused: it returns false,
\* debits nothing and its txHash (when it has one) is marked processed.
C21_SolvencyGuard ==
    [][/\ balance' >= 0
       /\ (/\ hist'.calls = hist.calls + 1
           /\ last'.op = "updatePosition"
           /\ hist'.call.sizeShares > 0
           /\ notional(hist'.call.sizeShares, hist'.call.price) > balance)
          => /\ ~last'.ok
             /\ balance' = balance
             /\ (last'.txHash # NoHash => last'.txHash \in processedTxHashes')]_vars

\* a buy has been refused for want of funds
C21_Witness ==
    /\ last.op = "updatePosition"
    /\ ~last.ok
    /\ hist.calls = 1
    /\ hist.call.sizeShares > 0
    /\ last.txHash \in processedTxHashes
    /\ notional(hist.call.sizeShares, hist.call.price) > balance

\* C22: when an operation that changed balance, positions, closedPositions,
\* tradeEvents or processedTxHashes has returned, the ledger file holds the
\* ledger that is in memory.
C22_PersistsOnCompletion ==
    [][(/\ disk.proc \in {"running", "saving"}
        /\ disk'.proc = "running"
        /\ (disk.proc = "saving" \/ LedgerState' # LedgerState))
          => disk'.file = Complete(LedgerState')]_vars

\* C23: a buy into an existing position sets entryTick to the tick of
\* (oldCost + newCost) / (oldShares + newShares), adds the bought shares to
\* size and their notional to investedUsd, and sets state to OPEN; 10 shares
\* at tick 440 followed by 20 shares at tick 500 give size 30, entryTick 480.
C23_WeightedAverageEntry ==
    [][\A k \in Keys, k2 \in Keys :
         (/\ positions[k] # NoPos
          /\ positions'[k2] # NoPos
          /\ positions'[k2].pid = positions[k].pid
          /\ positions'[k2].size > positions[k].size)
            => LET old == positions[k]
                   new == positions'[k2]
                   c   == hist'.call
               IN /\ c.sizeShares > 0
                  /\ new.size = old.size + c.sizeShares
                  /\ new.entryTick =
                        toTickQ(old.size * old.entryNum + c.sizeShares * c.price * old.entryDen,
                                old.entryDen * (old.size + c.sizeShares))
                  /\ minus(new.investedNum, new.investedDen,
                           old.investedNum, old.investedDen) = <<c.sizeShares * c.price, 1>>
                  /\ new.state = "OPEN"
                  /\ (/\ old.size = Shares(10) /\ old.entryTick = 440
                      /\ c.sizeShares = Shares(20) /\ c.price = fromTick(500))
                        => new.size = Shares(30) /\ new.entryTick = 480]_vars

C23_Witness ==
    /\ last.op = "updatePosition" /\ last.ok
    /\ hist.call.sizeShares = Shares(20)
    /\ \E k \in Keys : /\ positions[k] # NoPos
                       /\ positions[k].size = Shares(30)
                       /\ positions[k].entryTick = 480
                       /\ positions[k].investedNum = Shares(10) * fromTick(440) + Shares(20) * fromTick(500)

\* C24: a YES position of a market resolved YES is closed with trigger
\* MARKET_RESOLUTION, cause WINNER_YES and exitTick 999, and what the close
\* returns (the balance credit, and so the realized PnL against the entry
\* cost) is 0.999 per share.
C24_WinnerPaidAtTopTick ==
    \A i \in DOMAIN closedPositions :
        LET rec == closedPositions[i]
        IN (rec.closeTrigger = "MARKET_RESOLUTION" /\ rec.side = "YES"
              /\ lifecycle = "CLOSED_YES")
             => /\ rec.closeCause = "WINNER_YES"
                /\ rec.exitTick = 999
                /\ rec.returnUsd = rec.size * fromTick(999)

\* ------------------------------------------------------------------------
\* SpecSlippage: services/SlippageCalculator.ts, on bounded order books
\*   prices in 1/PriceScale, level sizes in shares, tradeSize in USDC,
\*   expectedEdge in percent, liquidity (d1Percent) in 1/TICK_SCALE USDC
\* ------------------------------------------------------------------------
\* private readonly delayPenalty = 0.003, in 1/1000
delayPenalty == 3

\* const edgeFactor = 0.4, in 1/10
edgeFactor == 4

NoLevels == <<>>    \* an order book without bids and asks arrays

\* the USDC of the levels whose tick passes the threshold: levelTick / TICK_SCALE * size
RECURSIVE liquidityOf(_, _, _)
liquidityOf(levels, thresholdTick, isBuy) ==
    IF levels = <<>> THEN 0
    ELSE LET level == Head(levels)
             levelTick == toTick(level.price)
             counted == IF isBuy THEN levelTick <= thresholdTick
                        ELSE levelTick >= thresholdTick
         IN (IF counted THEN levelTick * level.size ELSE 0)
              + liquidityOf(Tail(levels), thresholdTick, isBuy)

\* SlippageCalculator.calculateD1Percent
calculateD1Percent(orderBook, bestBidTick, bestAskTick, isBuy) ==
    IF isBuy
    THEN liquidityOf(orderBook.asks, (bestAskTick * 101) \div 100, TRUE)
    ELSE liquidityOf(orderBook.bids, (bestBidTick * 99) \div 100, FALSE)

\* SlippageCalculator.calculateExpectedSlippage: shouldExecute and the reason
calculateExpectedSlippage(marketPrice, orderBook, tradeSize, isBuy, expectedEdge) ==
    LET bestBidTick == toTick(marketPrice.bestBid)
        bestAskTick == toTick(marketPrice.bestAsk)
    IN IF orderBook = NoLevels
       THEN [shouldExecute |-> FALSE, reason |-> "Invalid order book structure"]
       ELSE IF tradeSize <= 0
       THEN [shouldExecute |-> FALSE, reason |-> "Trade size must be positive"]
       ELSE IF bestBidTick + bestAskTick <= 0
       THEN [shouldExecute |-> FALSE, reason |-> "Invalid market price"]
       ELSE IF bestAskTick <= 0 \/ bestBidTick <= 0
       THEN [shouldExecute |-> FALSE, reason |-> "Invalid bid/ask prices"]
       ELSE \* spreadPct = (bestAskTick - bestBidTick) / midPriceTick > 0.15
            IF 200 * (bestAskTick - bestBidTick) > 15 * (bestBidTick + bestAskTick)
       THEN [shouldExecute |-> FALSE, reason |-> "HARD CAP"]
       ELSE LET d1Percent == calculateD1Percent(orderBook, bestBidTick, bestAskTick, isBuy)
                \* totalSlippage <= threshold: impactPct + delayPenalty
                \*   <= expectedEdge * edgeFactor, impactPct = tradeSize / d1Percent
                within == /\ d1Percent # 0
                          /\ tradeSize * TICK_SCALE * TICK_SCALE + delayPenalty * d1Percent
                               <= edgeFactor * expectedEdge * d1Percent
            IN [shouldExecute |-> within,
                reason |-> IF within THEN "OK" ELSE "Slippage > Threshold"]

BestBids == {fromTick(13), fromTick(400), fromTick(500), fromTick(860)}
BestAsks == {fromTick(15) + 1, fromTick(510), fromTick(550), PriceScale}
Depths == {0, 50, 10000}      \* shares resting at each level; 0: no book
TradeSizes == {0, 10, 100}
ExpectedEdges == {0, 6, 20}

SlippageInputs ==
    [op : {"book"}, bestBid : BestBids, bestAsk : BestAsks, depth : Depths,
     tradeSize : TradeSizes, isBuy : BOOLEAN, expectedEdge : ExpectedEdges]

marketPriceOf(in) == [bestBid |-> in.bestBid, bestAsk |-> in.bestAsk]

orderBookOf(in) ==
    IF in.depth = 0 THEN NoLevels
    ELSE [bids |-> <<[price |-> in.bestBid, size |-> in.depth],
                     [price |-> in.bestBid \div 2, size |-> in.depth]>>,
          asks |-> <<[price |-> in.bestAsk, size |-> in.depth],
                     [price |-> in.bestAsk + fromTick(100), size |-> in.depth]>>]

\* a fresh process whose last call holds the inputs of a pure function
InitOf(inputs) ==
    /\ balance = FreshLedger.balance
    /\ positions = FreshLedger.positions
    /\ closedPositions = FreshLedger.closedPositions
    /\ tradeEvents = FreshLedger.tradeEvents
    /\ processedTxHashes = FreshLedger.processedTxHashes
    /\ nextOid = 1
    /\ hist = [start |-> FreshLedger.balance, buys |-> 0, sells |-> 0, calls |-> 0,
               spent |-> 0, applied |-> <<>>, raced |-> {}, gated |-> {},
               requests |-> 0, lastBuy |-> 0, skipped |-> {},
               failed |-> {}, call |-> NoCall,
               accepted |-> [buy |-> 0, sell |-> 0]]
    /\ detached = {}
    /\ pendingCloses = EmptyBag
    /\ activity = <<>>
    /\ lifecycle = "ACTIVE"
    /\ loop = LoopOff
    /\ last \in inputs
    /\ disk = diskOf(LedgerState)
    /\ clock = DateNow

InitSlippage == InitOf(SlippageInputs)

CalculateExpectedSlippage ==
    /\ last.op = "book"
    /\ last' = [op |-> "slippage", book |-> last,
                estimate |-> calculateExpectedSlippage(marketPriceOf(last), orderBookOf(last),
                                                       last.tradeSize, last.isBuy,
                                                       last.expectedEdge)]
    /\ UNCHANGED <<ledgerVars, nextOid, detached, pendingCloses, activity, lifecycle,
                   loop, hist, disk, clock>>

NextSlippage == CalculateExpectedSlippage

SpecSlippage == InitSlippage /\ [][NextSlippage]_vars

\* C25: for every order book with (bestAsk - bestBid) / mid > 0.15, mid being
\* (bestBid + bestAsk) / 2, calculateExpectedSlippage returns shouldExecute
\* = false, whatever the trade size, the direction and the expected edge.
C25_WideSpreadNeverExecutes ==
    last.op = "slippage" =>
        (200 * (last.book.bestAsk - last.book.bestBid)
            > 15 * (last.book.bestBid + last.book.bestAsk)
           => ~last.estimate.shouldExecute)

\* ------------------------------------------------------------------------
\* SpecTicks: utils/ticks.ts in the arithmetic of the runtime (IEEE 754
\* binary64, round to nearest, ties to even)
\*   the double nearest to tick / TICK_SCALE is kept by what the exact
\*   product with TICK_SCALE misses: price * TICK_SCALE = tick - rho / 2^k
\* ------------------------------------------------------------------------
SignificandBits == 53

RECURSIVE Pow2(_)
Pow2(n) == IF n = 0 THEN 1 ELSE 2 * Pow2(n - 1)

RECURSIVE exponentOf(_)
exponentOf(n) == IF n < 2 THEN 0 ELSE 1 + exponentOf(n \div 2)

\* the binary digits of r / TICK_SCALE by long division, up to SignificandBits
\* significant digits: k digits produced, n of them significant, the
\* remainder r and whether the last digit is 1
RECURSIVE quotientBits(_, _, _, _)
quotientBits(r, k, n, odd) ==
    IF n = SignificandBits THEN [k |-> k, r |-> r, odd |-> odd]
    ELSE LET bit == IF 2 * r >= TICK_SCALE THEN 1 ELSE 0
         IN quotientBits(2 * r - TICK_SCALE * bit, k + 1,
                         IF n > 0 \/ bit = 1 THEN n + 1 ELSE n, bit = 1)

roundsUpNever(q) == FALSE

\* round to nearest, ties to even, of the quotient cut after its last digit
roundsUp(q) == 2 * q.r > TICK_SCALE \/ (2 * q.r = TICK_SCALE /\ q.odd)

\* clampTick(tick) / TICK_SCALE as a double
fromTickDouble(tick) ==
    LET q == quotientBits(clampTick(tick), 0, 0, FALSE)
    IN [tick |-> clampTick(tick), k |-> q.k,
        rho |-> IF roundsUp(q) THEN q.r - TICK_SCALE ELSE q.r]

\* Math.floor(price * TICK_SCALE): the product tick - rho / 2^k is rounded to
\* the nearest double, which is tick unless the product lies more than half
\* a step below tick (the step below a power of two being half as wide)
floorOfProduct(price) ==
    LET e == exponentOf(price.tick)
        half == IF price.tick = Pow2(e) THEN e - SignificandBits - 1
                ELSE e - SignificandBits
        near == IF price.k + half < 0 THEN price.rho <= 0
                ELSE price.rho <= Pow2(price.k + half)
    IN IF near THEN price.tick ELSE price.tick - 1

\* toTick of a double
toTickDouble(price) == clampTick(floorOfProduct(price))

TickInputs == [op : {"tick"}, tick : 0 .. TICK_SCALE]

InitTicks == InitOf(TickInputs)

FromTick ==
    /\ last.op = "tick"
    /\ last' = [op |-> "fromTick", tick |-> last.tick, price |-> fromTickDouble(last.tick)]
    /\ UNCHANGED <<ledgerVars, nextOid, detached, pendingCloses, activity, lifecycle,
                   loop, hist, disk, clock>>

ToTick ==
    /\ last.op = "fromTick"
    /\ last' = [op |-> "toTick", tick |-> last.tick, back |-> toTickDouble(last.price)]
    /\ UNCHANGED <<ledgerVars, nextOid, detached, pendingCloses, activity, lifecycle,
                   loop, hist, disk, clock>>

NextTicks == FromTick \/ ToTick

SpecTicks == InitTicks /\ [][NextTicks]_vars

\* C26: for every tick t from 1 to 999, toTick(fromTick(t)) = t.
C26_TickRoundTrip ==
    (last.op = "toTick" /\ last.tick \in MIN_TICK .. MAX_TICK) => last.back = last.tick

C26_Witness == last.op = "toTick" /\ last.tick = 7 /\ last.back = 7

\* C27: a position whose state is PENDING_RESOLUTION is closed only by the
\* trigger MARKET_RESOLUTION, whatever the interleaving of the sweep with a
\* close that is suspended on getLivePrice.
C27_PendingClosedOnlyByResolution ==
    [][\A k \in Keys :
         (positions[k] # NoPos /\ positions[k].state = "PENDING_RESOLUTION")
            => \A i \in 1 .. (Len(closedPositions') - Len(closedPositions)) :
                  closedPositions'[i].pid = positions[k].pid
                     => closedPositions'[i].closeTrigger = "MARKET_RESOLUTION"]_vars

\* the startPolling calls that are inside their while loop
runningLoops == (IF loop.pc # "off" THEN 1 ELSE 0) + loop.others

\* C28: whatever the sequence of startPolling, stopPolling and dashboard
\* toggles, at most one polling loop is running at any time; a stop followed
\* by a start before the old loop wakes from its sleep leaves one loop.
C28_AtMostOneLoop == runningLoops <= 1

\* ------------------------------------------------------------------------
\* SpecPoll: the polling loop when the venue returns a malformed item
\* ------------------------------------------------------------------------
\* the source account's activity gets an item whose price is not a number
MalformedTrade ==
    /\ Len(activity) < MaxTrades
    /\ activity' = Append(activity,
                          sourceTrade(Len(activity) + 1, "BUY", "Yes", SourceSize, NaN))
    /\ loop.pc = "fetch"
    /\ hist' = [hist EXCEPT !.applied = Append(@, 0)]
    /\ UNCHANGED <<clock, disk, ledgerVars, nextOid, detached, pendingCloses, lifecycle, loop, last>>

\* toTick(sourcePrice) throws inside processAutoTrade: the exception leaves
\* the for loop and the try block of the iteration, the catch block logs
\* "Poll Error", and the loop sleeps
ProcessAutoTradeThrows ==
    /\ loop.pc = "book"
    /\ ~isBlacklisted(loop.blacklistedMarketIds, "M")
    /\ throwsInvalidPrice(activity[Head(loop.batch)].price)
    /\ loop' = [loop EXCEPT !.pc = "fetch", !.batch = <<>>]
    /\ last' = [op |-> "Poll Error"]
    /\ UNCHANGED <<clock, disk, ledgerVars, nextOid, detached, pendingCloses, activity,
                   lifecycle, hist>>

NextPoll ==
    \/ StartPolling
    \/ SourceTrade
    \/ MalformedTrade
    \/ Poll
    \/ ProcessAutoTradeBook
    \/ ProcessAutoTradeRefetch
    \/ ProcessAutoTradeThrows
    \/ SweepStep

SpecPoll == Init /\ [][NextPoll]_vars

\* C29: a malformed item of a poll (a price that is not a number) is skipped
\* alone: when processAutoTrade ends the iteration, every other item of the
\* poll has been through processAutoTrade, and the iteration's sweep and
\* tick counter have advanced (an iteration with tickCount % 10 = 0 ends
\* with the counter moved on, and with no position left unswept).
C29_MalformedItemSkippedAlone ==
    [][(loop.pc \in {"book", "wait"} /\ loop'.pc = "fetch")
         => /\ skipDuplicates(Tail(loop.batch), tradeEvents') = <<>>
            /\ loop.tickCount = 0
                  => loop'.tickCount = 1 /\ liveOids(LedgerState') = {}]_vars

\* the state the sweep is to leave on a position in state `state` whose
\* market classifies as lc
sweptState(state, lc) ==
    IF lc = "PENDING_RESOLUTION" /\ state = "OPEN" THEN "PENDING_RESOLUTION"
    ELSE IF lc = "ACTIVE" /\ state = "PENDING_RESOLUTION" THEN "OPEN"
    ELSE state

\* C30: when the sweep handles a position whose market classifies as
\* PENDING_RESOLUTION, an OPEN position becomes PENDING_RESOLUTION; when it
\* classifies as ACTIVE, a PENDING_RESOLUTION position becomes OPEN; and
\* the sweep changes no other state for these two classifications.  This
\* holds for the positions under every key, legacy keys included.
C30_SweepTransitions ==
    [][(/\ loop.pc = "sweep"
        /\ last' # last
        /\ last'.op = "manageLifecycle"
        /\ last'.lc \in {"ACTIVE", "PENDING_RESOLUTION"})
         => \A k \in Keys :
               positions[k] # NoPos
                  => /\ positions'[k] # NoPos
                     /\ positions'[k].state =
                            IF positions[k].oid \in loop.sweep \ loop'.sweep
                            THEN sweptState(positions[k].state, last'.lc)
                            ELSE positions[k].state]_vars

\* C31: within one poll the source trades are handled oldest first: the item
\* that processAutoTrade holds (through its 30 s wait at the price ceiling as
\* well) is older than every item of the poll still to come, and only that
\* item is applied to the ledger or given up.
C31_OldestFirst ==
    [][/\ loop'.pc \in {"book", "wait"}
          => \A i \in 2 .. Len(loop'.batch) : loop'.batch[i] > Head(loop'.batch)
       /\ \A n \in DOMAIN activity :
             (hist'.applied[n] # hist.applied[n] \/ n \in hist'.skipped \ hist.skipped)
                => /\ loop.pc \in {"book", "wait"}
                   /\ n = Head(loop.batch)
                   /\ \A i \in 2 .. Len(loop.batch) : loop.batch[i] > n]_vars

C31_Witness ==
    /\ loop.pc = "wait"
    /\ loop.batch = <<1, 2>>
    /\ hist.applied = <<0, 0>>


\* the rational p + q in lowest terms
plus(p, q) == minus(p[1], p[2], 0 - q[1], q[2])

RECURSIVE total(_)
total(amounts) ==
    IF DOMAIN amounts = {} THEN <<0, 1>>
    ELSE LET x == CHOOSE y \in DOMAIN amounts : TRUE
         IN plus(amounts[x], total([y \in DOMAIN amounts \ {x} |-> amounts[y]]))

openKeys == {k \in Keys : positions[k] # NoPos}

\* balance + investedUsd of the open positions
netValue ==
    plus(<<balance, 1>>,
         total([k \in openKeys |-> <<positions[k].investedNum, positions[k].investedDen>>]))

\* realizedPnL of the open positions + realizedPnL of the closedPositions records
realizedTotal ==
    plus(total([k \in openKeys |-> <<positions[k].realizedNum, positions[k].realizedDen>>]),
         total([i \in DOMAIN closedPositions |->
                   <<closedPositions[i].realizedNum, closedPositions[i].realizedDen>>]))

\* C32: an accepted updatePosition call conserves value: it leaves
\* balance + sum of investedUsd over the open positions - sum of realizedPnL
\* over the open positions - sum of realizedPnL over the closedPositions
\* records unchanged, so that after any sequence of accepted calls that
\* quantity is the starting balance.
C32_ValueConserved ==
    [][(isUpdatePositionCall /\ last'.ok)
       => minus(netValue'[1], netValue'[2], realizedTotal'[1], realizedTotal'[2])
            = minus(netValue[1], netValue[2], realizedTotal[1], realizedTotal[2])]_vars


\* the open positions of one outcome of a binary market
heldFor(marketId, side) ==
    {k \in openKeys : positions[k].marketId = marketId /\ positions[k].side = side}

\* C33: after a call of updatePosition no two open positions have the same
\* (marketId, tokenId); a call that is not a repeat of a processed txHash and
\* finds the position under the legacy key (marketId, side) leaves no entry
\* under the legacy key; and a buy for an outcome already held does not add
\* an entry to the open set.
C33_OnePositionPerOutcome ==
    [][isUpdatePositionCall
       => /\ \A k, k2 \in openKeys' :
                k # k2 => ~(/\ positions'[k].marketId = positions'[k2].marketId
                            /\ positions'[k].tokenId = positions'[k2].tokenId)
          /\ (/\ positions[LegacyKey("M", "YES")] # NoPos
              /\ ~(last'.txHash # NoHash /\ last'.txHash \in processedTxHashes))
                => positions'[LegacyKey("M", "YES")] = NoPos
          /\ (hist'.call.sizeShares > 0 /\ heldFor("M", "YES") # {})
                => Cardinality(openKeys') <= Cardinality(openKeys)]_vars


\* C34: a call of updatePosition with sizeShares < 0 and a reason that is
\* not a market resolution, made when neither the canonical key nor the
\* legacy key of the call holds a position, returns false, leaves its txHash
\* (when it has one) processed, and leaves balance, positions,
\* closedPositions and tradeEvents unchanged.
C34_OrphanSellRefused ==
    [][(/\ isUpdatePositionCall
        /\ hist'.call.sizeShares < 0
        /\ ~isSettlementReason(hist'.call.actionReason)
        /\ positions[canonicalKeyOf("M", "YES", LabelOf["YES"], hist'.call.tokenId)] = NoPos
        /\ positions[LegacyKey("M", "YES")] = NoPos)
       => /\ ~last'.ok
          /\ (last'.txHash # NoHash => last'.txHash \in processedTxHashes')
          /\ UNCHANGED <<balance, positions, closedPositions, tradeEvents>>]_vars

\* the first call on an empty ledger was a manual sell with a txHash
C34_Witness ==
    /\ last.op = "updatePosition"
    /\ ~last.ok
    /\ hist.calls = 1
    /\ hist.call.sizeShares < 0
    /\ ~isSettlementReason(hist.call.actionReason)
    /\ openKeys = {}
    /\ closedPositions = <<>>
    /\ balance = hist.start
    /\ last.txHash = <<"h1">>
    /\ processedTxHashes = {<<"h1">>}


\* the position is CLOSING or carries a field that tryClosePosition sets
carriesClose(pos) ==
    \/ pos.state = "CLOSING"
    \/ pos.closePriority # 0
    \/ pos.closeTrigger # NoValue
    \/ pos.closeCause # NoValue

\* C35: whenever no tryClosePosition call is in progress, no position of the
\* open set is CLOSING or carries closePriority, closeTrigger or closeCause.
C35_NoTransientCloseState ==
    pendingCloses = EmptyBag => \A k \in openKeys : ~carriesClose(positions[k])


\* ------------------------------------------------------------------------
\* SpecExit: the exit price of a market-based close (tryClosePosition,
\* step 4) in double arithmetic, and the tick the ledger derives from it
\* ------------------------------------------------------------------------
\* number of low digits of the significand kept to round 1 - price
TailBits == 11

\* 2^i modulo TICK_SCALE
RECURSIVE powMod(_)
powMod(i) == IF i = 0 THEN 1 ELSE (2 * powMod(i - 1)) % TICK_SCALE

\* the i-th binary digit (i >= 1) of tick / TICK_SCALE
digit(tick, i) == IF 2 * ((tick * powMod(i - 1)) % TICK_SCALE) >= TICK_SCALE THEN 1 ELSE 0

\* the digits k - TailBits + 1 .. k of tick / TICK_SCALE, read as a number
RECURSIVE significandTail(_, _, _)
significandTail(tick, k, b) ==
    IF b = TailBits THEN 0
    ELSE digit(tick, k - b) * Pow2(b) + significandTail(tick, k, b + 1)

\* 1 - price as a double: price = m / 2^k, so 1 - price = (2^k - m) / 2^k,
\* rounded to the nearest multiple of 2^-53 (ties to even) when price < 0.5
oneMinus(price) ==
    LET j == price.k - SignificandBits
        q == quotientBits(price.tick, 0, 0, FALSE)
        m == (significandTail(price.tick, price.k, 0) + (IF roundsUp(q) THEN 1 ELSE 0)) % Pow2(TailBits)
        n == (Pow2(TailBits) - m) % Pow2(TailBits)
        t == n % Pow2(j)
        odd == (n \div Pow2(j)) % 2 = 1
        d == IF t = 0 THEN 0
             ELSE IF 2 * t > Pow2(j) \/ (2 * t = Pow2(j) /\ odd) THEN Pow2(j) - t
             ELSE 0 - t
    IN [tick |-> TICK_SCALE - price.tick, k |-> price.k,
        rho |-> 0 - (price.rho + TICK_SCALE * d)]


\* null or undefined where a price is expected
Null == [null |-> TRUE]

\* the double 0
ZeroPrice == [tick |-> 0, k |-> SignificandBits, rho |-> 0]

\* api.getLivePrice: best bid and best ask of the YES-leg book, null when
\* the book is missing or one of its sides is empty
getLivePrice(in) ==
    IF in.live
    THEN [bestBid |-> fromTickDouble(in.bidTick), bestAsk |-> fromTickDouble(in.askTick)]
    ELSE Null

\* pos.currentPrice as updateRealTimePrice left it (undefined before the
\* first update)
currentPriceOf(in) ==
    IF in.currentTick = 0 THEN Null ELSE fromTickDouble(in.currentTick)

\* tryClosePosition, step 4, for a close that is neither forced-price nor a
\* resolution
marketExitPriceDouble(side, marketPrice, currentPrice) ==
    IF marketPrice # Null
    THEN IF side = "YES" THEN marketPrice.bestBid ELSE oneMinus(marketPrice.bestAsk)
    ELSE IF currentPrice # Null THEN currentPrice ELSE ZeroPrice

BookTicks == {1, 66, 440, 560, 999}

ExitInputs ==
    [op : {"close"}, side : Sides, live : BOOLEAN, bidTick : BookTicks,
     askTick : BookTicks, currentTick : {0, 430}]

InitExit == InitOf(ExitInputs)

\* the exit price of a USER_ACTION close and the exitTick that
\* updatePosition stores for it
DetermineExitPrice ==
    /\ last.op = "close"
    /\ \E marketPrice \in {getLivePrice(last)}, currentPrice \in {currentPriceOf(last)} :
          \E exitPrice \in {marketExitPriceDouble(last.side, marketPrice, currentPrice)} :
             last' = [op |-> "exit", close |-> last, exitTick |-> toTickDouble(exitPrice)]
    /\ UNCHANGED <<ledgerVars, nextOid, detached, pendingCloses, activity, lifecycle,
                   loop, hist, disk, clock>>

NextExit == DetermineExitPrice

SpecExit == InitExit /\ [][NextExit]_vars

\* C36: the exit tick of a manual close is the best-bid tick of the YES-leg
\* book for a YES position and 1000 minus the best-ask tick otherwise, is
\* the position's currentTick when no live price is available, and lies
\* within [1, 999].
C36_MarketExitTick ==
    last.op = "exit" =>
        /\ last.exitTick \in MIN_TICK .. MAX_TICK
        /\ last.close.live =>
              last.exitTick = IF last.close.side = "YES" THEN last.close.bidTick
                              ELSE TICK_SCALE - last.close.askTick
        /\ (~last.close.live /\ last.close.currentTick # 0) =>
              last.exitTick = last.close.currentTick


\* ------------------------------------------------------------------------
\* SpecCache: the price cache of the ledger service, written by the
\* websocket handler and read by the REST fallback of the polling loop.
\* last.priceCache is the entry ledger.priceCache[tokenId] of the position
\* held (Null while absent).
\* ------------------------------------------------------------------------
CACHE_EXPIRY_MS == 30000

CacheStepMs == 10000        \* the clock advances in steps of 10 s
MaxCacheSteps == 6          \* steps the clock runs on

InitCache ==
    /\ balance = HoldingLedger.balance
    /\ positions = HoldingLedger.positions
    /\ closedPositions = HoldingLedger.closedPositions
    /\ tradeEvents = HoldingLedger.tradeEvents
    /\ processedTxHashes = HoldingLedger.processedTxHashes
    /\ nextOid = 2
    /\ hist = [start |-> HoldingLedger.balance, buys |-> 0, sells |-> 0, calls |-> 0,
               spent |-> 0, applied |-> <<>>, raced |-> {}, gated |-> {},
               requests |-> 0, lastBuy |-> 0, skipped |-> {},
               failed |-> {}, call |-> NoCall,
               accepted |-> [buy |-> 1, sell |-> 0]]
    /\ detached = {}
    /\ pendingCloses = EmptyBag
    /\ activity = <<>>
    /\ lifecycle = "ACTIVE"
    /\ loop = LoopOff
    /\ last = [op |-> "start", priceCache |-> Null]
    /\ disk = diskOf(LedgerState)
    /\ clock = DateNow

\* handleWebsocketMessage -> updateRealTimePrice: the cache entry of the
\* token is written with the time of the message
CacheWebsocketMessage ==
    /\ \E finalPrice \in PriceUpdates :
          /\ SetLedger(updateRealTimePrice(LedgerState, "M", finalPrice, "t1"))
          /\ last' = [op |-> "ws",
                      priceCache |-> [price |-> finalPrice, timestamp |-> clock]]
    /\ UNCHANGED <<clock, disk, nextOid, detached, pendingCloses, activity, lifecycle,
                   loop, hist>>

CacheTimePasses ==
    /\ clock < DateNow + MaxCacheSteps * CacheStepMs
    /\ clock' = clock + CacheStepMs
    /\ UNCHANGED <<ledgerVars, disk, nextOid, detached, pendingCloses, activity,
                   lifecycle, loop, hist, last>>

\* cached && (now - cached.timestamp) < CACHE_EXPIRY_MS
isFreshlyCached(cached, now) ==
    cached # Null /\ now - cached.timestamp < CACHE_EXPIRY_MS

\* one pass of the price update fallback over the position held: the branch
\* of a fresh cache entry counts the position and goes on (its `continue`
\* is commented out), a position without tokenId is skipped, and the mid
\* price of the book fetched is written when the book has both sides
PriceUpdateFallback ==
    /\ \E k \in openKeys, orderBook \in Books :
          LET pos == positions[k]
              skippedCache == isFreshlyCached(last.priceCache, clock)
          IN /\ pos.tokenId # NoValue
             /\ positions' = IF orderBook # NoBook /\ midPrice(orderBook) > 0
                             THEN [positions EXCEPT ![k] =
                                      [@ EXCEPT !.currentPrice = midPrice(orderBook)]]
                             ELSE positions
             /\ last' = [op |-> "rest", priceCache |-> last.priceCache,
                         skippedCache |-> skippedCache, fetched |-> TRUE]
    /\ UNCHANGED <<clock, disk, balance, closedPositions, tradeEvents, processedTxHashes,
                   nextOid, detached, pendingCloses, activity, lifecycle, loop, hist>>

NextCache == CacheWebsocketMessage \/ CacheTimePasses \/ PriceUpdateFallback

SpecCache == InitCache /\ [][NextCache]_vars

\* C37: a pass of the REST price fallback made while the cache entry of the
\* position's token is younger than 30 s fetches no book for the position
\* and leaves the position's price as it is.
C37_FreshCacheNotOverwritten ==
    [][(last'.op = "rest" /\ (last' # last \/ positions' # positions)
          /\ isFreshlyCached(last.priceCache, clock))
       => (~last'.fetched /\ positions' = positions)]_vars


\* ------------------------------------------------------------------------
\* SpecLifecycle: MarketLifecycle.getMarketLifecycle on a container of two
\* child markets.  JSON values of a child: the booleans JsTrue / JsFalse,
\* the strings StrTrue / StrFalse, NoValue for an absent field.
\* ------------------------------------------------------------------------
JsTrue == "true"
JsFalse == "false"
StrTrue == "'true'"
StrFalse == "'false'"

\* parseMultiWinner: the label of the outcome priced >= 0.99, if any
parseMultiWinner(market) ==
    IF market.winner = NoValue THEN NoValue
    ELSE IF market.winner = "Yes" THEN "YES"
    ELSE IF market.winner = "No" THEN "NO"
    ELSE NoValue

determineMultiOutcomeState(market) ==
    LET isAccepting == market.acceptingOrders = JsTrue \/ market.acceptingOrders = StrTrue
    IN IF market.umaResolutionStatus = "resolved"
       THEN [state |-> "CLOSED",
             result |-> IF parseMultiWinner(market) = "YES" THEN "YES_WON"
                        ELSE IF parseMultiWinner(market) = "NO" THEN "NO_WON"
                        ELSE NoValue]
       ELSE IF ~isAccepting
       THEN [state |-> "PENDING_RESOLUTION", result |-> NoValue]
       ELSE [state |-> "ACTIVE", result |-> NoValue]

\* markets.find(m => m.conditionId === marketId || m.id === marketId)
findMarket(markets, marketId) ==
    IF \E i \in DOMAIN markets : markets[i].conditionId = marketId
    THEN markets[CHOOSE i \in DOMAIN markets :
                    /\ markets[i].conditionId = marketId
                    /\ \A j \in 1 .. i - 1 : markets[j].conditionId # marketId]
    ELSE Null

\* getMarketLifecycle for a container whose markets array has more than one
\* element
getMarketLifecycle(container, marketId) ==
    LET market == findMarket(container.markets, marketId)
    IN IF market = Null
       THEN [marketType |-> "MULTI", state |-> "ACTIVE", result |-> NoValue]
       ELSE [marketType |-> "MULTI",
             state |-> determineMultiOutcomeState(market).state,
             result |-> determineMultiOutcomeState(market).result]

ChildMarkets ==
    [conditionId : {"M", "X"},
     umaResolutionStatus : {"resolved", "proposed", NoValue},
     acceptingOrders : {JsTrue, JsFalse, StrTrue, StrFalse, NoValue},
     winner : {"Yes", "No", NoValue}]

OtherChild ==
    [conditionId |-> "O", umaResolutionStatus |-> NoValue, acceptingOrders |-> JsTrue,
     winner |-> NoValue]

LifecycleInputs ==
    {[op |-> "container", markets |-> <<OtherChild, child>>, marketId |-> "M"] :
        child \in ChildMarkets}

InitLifecycle == InitOf(LifecycleInputs)

GetMarketLifecycle ==
    /\ last.op = "container"
    /\ last' = [op |-> "lifecycle", container |-> last,
                found |-> findMarket(last.markets, last.marketId),
                lc |-> getMarketLifecycle(last, last.marketId)]
    /\ UNCHANGED <<ledgerVars, nextOid, detached, pendingCloses, activity, lifecycle,
                   loop, hist, disk, clock>>

NextLifecycle == GetMarketLifecycle

SpecLifecycle == InitLifecycle /\ [][NextLifecycle]_vars

\* C38: for a container of more than one child market the state returned is
\* CLOSED iff the matched child's umaResolutionStatus is "resolved",
\* otherwise PENDING_RESOLUTION iff the child's acceptingOrders is false and
\* ACTIVE for every other value of acceptingOrders, an absent field
\* included; without a matching child it is ACTIVE with no result.
C38_MultiLifecycle ==
    last.op = "lifecycle" =>
        /\ last.lc.marketType = "MULTI"
        /\ last.found = Null => (last.lc.state = "ACTIVE" /\ last.lc.result = NoValue)
        /\ last.found # Null =>
              last.lc.state =
                 IF last.found.umaResolutionStatus = "resolved" THEN "CLOSED"
                 ELSE IF last.found.acceptingOrders \in {JsFalse, StrFalse}
                      THEN "PENDING_RESOLUTION"
                      ELSE "ACTIVE"


\* ------------------------------------------------------------------------
\* SpecOutcome: outcome selection and side determination of
\* processAutoTrade
\* ------------------------------------------------------------------------
\* String.prototype.toUpperCase on the labels and signals used here
toUpperCase(str) ==
    CASE str \in {"Yes", "yes", "YES"} -> "YES"
      [] str \in {"No", "no", "NO"} -> "NO"
      [] str \in {"True", "TRUE"} -> "TRUE"
      [] str \in {"False", "FALSE"} -> "FALSE"
      [] str \in {"Up", "UP"} -> "UP"
      [] str \in {"Down", "DOWN"} -> "DOWN"
      [] str \in {"Pass", "PASS"} -> "PASS"
      [] str \in {"Fail", "FAIL"} -> "FAIL"
      [] OTHER -> str

\* outcomes.find(pred): the first outcome whose label in upper case is in
\* `labels`, Null when there is none
findOutcome(outcomes, labels) ==
    IF \E i \in DOMAIN outcomes : toUpperCase(outcomes[i].label) \in labels
    THEN outcomes[CHOOSE i \in DOMAIN outcomes :
                     /\ toUpperCase(outcomes[i].label) \in labels
                     /\ \A j \in 1 .. i - 1 : toUpperCase(outcomes[j].label) \notin labels]
    ELSE Null

\* 2. SMART OUTCOME SELECTION
selectOutcome(model, rawOutcome) ==
    LET rawOutcomeStr == toUpperCase(rawOutcome)
        exact == findOutcome(model.outcomes, {rawOutcomeStr})
    IN IF exact # Null THEN exact
       ELSE IF model.type # "binary" THEN Null
       ELSE IF rawOutcomeStr \in {"YES", "1", "TRUE", "UP", "PASS"}
       THEN findOutcome(model.outcomes, {"YES", "TRUE", "1"})
       ELSE IF rawOutcomeStr \in {"NO", "0", "FALSE", "DOWN", "FAIL"}
       THEN findOutcome(model.outcomes, {"NO", "FALSE", "0"})
       ELSE Null

\* side determination: for a binary market NO only when the label of the
\* outcome that carries the token is 'No' or 'NO'
sideOfOutcome(model, tokenId) ==
    LET outcome == model.outcomes[CHOOSE i \in DOMAIN model.outcomes :
                                     /\ model.outcomes[i].tokenId = tokenId
                                     /\ \A j \in 1 .. i - 1 :
                                           model.outcomes[j].tokenId # tokenId]
    IN IF model.type = "binary"
       THEN IF outcome.label = "No" \/ outcome.label = "NO" THEN "NO" ELSE "YES"
       ELSE "YES"

\* a market model of the given outcome labels, the i-th token being "t<i>"
marketModel(labels) ==
    [type |-> IF Len(labels) = 2 THEN "binary" ELSE "multi",
     outcomes |-> [i \in DOMAIN labels |->
                      [label |-> labels[i], tokenId |-> <<"t", i>>]]]

OutcomeLabels ==
    {<<"Yes", "No">>, <<"No", "Yes">>, <<"YES", "NO">>, <<"yes", "no">>,
     <<"True", "False">>, <<"Up", "Down">>, <<"1", "0">>, <<"Pass", "Fail">>,
     <<"Alice", "Bob", "No">>}

RawOutcomes ==
    {"Yes", "No", "YES", "no", "True", "False", "Up", "Down", "1", "0",
     "Pass", "Fail", "Alice", "Bob", ""}

OutcomeInputs ==
    [op : {"signal"}, model : {marketModel(labels) : labels \in OutcomeLabels},
     outcome : RawOutcomes]

InitOutcome == InitOf(OutcomeInputs)

NoSynonyms == {"NO", "0", "FALSE", "DOWN", "FAIL"}

SelectOutcome ==
    /\ last.op = "signal"
    /\ LET selectedOutcome == selectOutcome(last.model, last.outcome)
       IN last' = IF selectedOutcome = Null
                  THEN [op |-> "skipped", signal |-> last]
                  ELSE [op |-> "selected", signal |-> last,
                        outcomeLabel |-> selectedOutcome.label,
                        tokenId |-> selectedOutcome.tokenId,
                        side |-> sideOfOutcome(last.model, selectedOutcome.tokenId)]
    /\ UNCHANGED <<ledgerVars, nextOid, detached, pendingCloses, activity, lifecycle,
                   loop, hist, disk, clock>>

NextOutcome == SelectOutcome

SpecOutcome == InitOutcome /\ [][NextOutcome]_vars

\* C39: for a binary market the side is NO iff the label of the selected
\* outcome is, whatever its case, one of NO, 0, FALSE, DOWN, FAIL, and YES
\* otherwise; for a multi market the side is YES; the token id is that of
\* the selected outcome.
C39_SideFollowsLabel ==
    last.op = "selected" =>
        /\ last.signal.model.type = "binary" =>
              (last.side = "NO" <=> toUpperCase(last.outcomeLabel) \in NoSynonyms)
        /\ last.signal.model.type = "multi" => last.side = "YES"
        /\ last.side \in Sides
        /\ \E i \in DOMAIN last.signal.model.outcomes :
              /\ last.signal.model.outcomes[i].label = last.outcomeLabel
              /\ last.signal.model.outcomes[i].tokenId = last.tokenId


\* ------------------------------------------------------------------------
\* SpecFilter: the engine started with FeatureSwitches.SKIP_ACTIVE_POSITIONS
\* on: startPolling scans the positions of the source account and
\* blacklists their markets
\* ------------------------------------------------------------------------
\* targetMarketIds.filter(id => !localMarketIds.has(id))
marketIdsToBlacklist(targetMarketIds, s) ==
    {id \in targetMarketIds :
        ~\E k \in Keys : s.positions[k] # NoPos /\ s.positions[k].marketId = id}

\* PositionFilter.initialize
initialize(blacklistedMarketIds, existingMarketIds) ==
    blacklistedMarketIds \cup existingMarketIds

\* startPolling with the scan of the initial positions: getPositions
\* returns the markets the source account holds
StartPollingScan ==
    /\ loop.pc = "off"
    /\ ~loop.isPolling
    /\ \E targetMarketIds \in SUBSET {"M"} :
          /\ loop' = [loop EXCEPT
                         !.pc = "fetch", !.isPolling = TRUE,
                         !.blacklistedMarketIds =
                             initialize(@, marketIdsToBlacklist(targetMarketIds, LedgerState))]
          /\ last' = [op |-> "scan", targetMarketIds |-> targetMarketIds]
    /\ UNCHANGED <<clock, disk, ledgerVars, nextOid, detached, pendingCloses, activity,
                   lifecycle, hist>>

\* processAutoTrade for an item of a blacklisted market: it returns at the
\* position filter check
ProcessAutoTradeBlacklisted ==
    /\ loop.pc = "book"
    /\ isBlacklisted(loop.blacklistedMarketIds, "M")
    /\ loop' \in continueLoop([loop EXCEPT !.batch = Tail(@)], LedgerState)
    /\ last' = [op |-> "blacklisted", item |-> Head(loop.batch)]
    /\ UNCHANGED <<clock, disk, ledgerVars, nextOid, detached, pendingCloses, activity,
                   lifecycle, hist>>

NextFilter ==
    \/ StartPollingScan
    \/ SourceTrade
    \/ Poll
    \/ ProcessAutoTradeBook
    \/ ProcessAutoTradeRefetch
    \/ ProcessAutoTradeBlacklisted
    \/ SweepStep

SpecFilter == Init /\ [][NextFilter]_vars

====
